---- MODULE Spec2Model ----
(***************************************************************************)
(* The Redis-backed memoization decorator of                               *)
(* app/backend/src/core/cache/decorator.py: key derivation, the read path, *)
(* the set-if-absent stampede protocol and the persist / release steps of  *)
(* RedisCache.cache.decorator.wrapper, with the shared store and the       *)
(* passage of time as the environment.                                     *)
(*                                                                         *)
(* Time is counted in ticks, TicksPerSecond ticks to a second.  Every      *)
(* await of the wrapper is one action; the code between two awaits runs    *)
(* without interruption (single-threaded cooperative scheduling).          *)
(***************************************************************************)
EXTENDS Integers, Sequences, FiniteSets, TLC

\* ---------------------------------------------------------------- bounds
MaxCalls == 2
MaxOps == 3
BatchSize == 2
MaxWaitTicks == 2
TicksPerSecond == 2

\* The concurrent callers of the wrapped computation.
Callers == {1, 2}

\* ---------------------------------------------------------------- values
\* Python's None, as a result of the wrapped computation and as the "miss"
\* answer of _resolve_cached_value.
NoneVal == <<>>

\* Python values that are passed as arguments: an int, a list, a tuple, a
\* dict and a collections.OrderedDict.  kind is the type, num the number of
\* an int, parts the elements of a sequence in order or the items of a
\* mapping in insertion order, as <<name, value>> pairs.
PyInt(n) == [kind |-> "int", num |-> n, parts |-> <<>>]
PyStr(text) == [kind |-> "str", num |-> 0, parts |-> <<text>>]
List(items) == [kind |-> "list", num |-> 0, parts |-> items]
Tuple(items) == [kind |-> "tuple", num |-> 0, parts |-> items]
Dict(items) == [kind |-> "dict", num |-> 0, parts |-> items]
OrderedDict(items) == [kind |-> "OrderedDict", num |-> 0, parts |-> items]

\* A call's arguments: positional values and the keyword arguments in the
\* caller's insertion order, as <<name, value>> pairs.  The positional value
\* 0 in the second position makes the wrapped computation return None.
Inputs ==
    { [args |-> <<PyInt(1), PyInt(5)>>, kwargs |-> << <<"noise", PyInt(1)>> >>],
      [args |-> <<PyInt(2), PyInt(5)>>, kwargs |-> << <<"noise", PyInt(2)>> >>],
      [args |-> <<PyInt(1), PyInt(0)>>, kwargs |-> << <<"noise", PyInt(1)>> >>],
      [args |-> <<PyInt(2), PyInt(0)>>, kwargs |-> << <<"noise", PyInt(2)>> >>] }

NoInput == [args |-> <<>>, kwargs |-> <<>>]

\* The wrapped computation, a pure function of the unfiltered arguments: it
\* returns a value that names every argument it received, or None.
Func(input) ==
    IF Len(input.args) >= 2 /\ input.args[2] = PyInt(0) THEN NoneVal
    ELSE <<input.args, input.kwargs>>

\* ----------------------------------------------------------- configuration
\* cfg.maxWait     concurrent_max_wait_time, in ticks
\* cfg.ttl         <<>> for ttl=None, <<n>> for a ttl of n ticks
\* cfg.ignoreErr   ignore_validation_error
\* cfg.ignorePos   ignore_positionals (0-based indices)
\* cfg.ignoreKw    ignore_kw
\* cfg.validation  "unset" | "accept" | "reject" | "raise"
\* cfg.serializer  "bytes" | "nonbytes" | "raises"
\* cfg.store       "up" (every store operation succeeds) | "flaky" | "down"
\* cfg.prefix, cfg.namespace   components of the key prefix
\* cfg.func        the decorated callable: "async_def" | "def"
\* cfg.keySerializer  "hash_key" (the default) | "join" (a caller's function
\*                 that joins the positional arguments with ":")
VARIABLES cfg, store, call, ncalls, db

vars == <<cfg, store, call, ncalls, db>>

\* The database of the chat service: the rows of the conversations table
\* with the most recently updated first, the rows of the messages table in
\* the order of their creation, and the number of commits so far.
NoRows == [conversations |-> <<>>, messages |-> <<>>, commits |-> 0]

StoreOutcomes ==
    CASE cfg.store = "up" -> {TRUE}
      [] cfg.store = "down" -> {FALSE}
      [] OTHER -> {TRUE, FALSE}

\* ------------------------------------------------------------ key derivation
RECURSIVE FilterPositionals(_, _, _)
FilterPositionals(call_args, index, ignore_positionals_set) ==
    IF index > Len(call_args) THEN <<>>
    ELSE (IF (index - 1) \in ignore_positionals_set THEN <<>>
          ELSE <<call_args[index]>>)
         \o FilterPositionals(call_args, index + 1, ignore_positionals_set)

FilterKeywords(call_kwargs, ignore_kw_set) ==
    SelectSeq(call_kwargs, LAMBDA p : p[1] \notin ignore_kw_set)

\* _normalize_parameters: drop the ignored positional indices and keyword names.
normalize_parameters(call_args, call_kwargs) ==
    [args |-> FilterPositionals(call_args, 1, cfg.ignorePos),
     kwargs |-> FilterKeywords(call_kwargs, cfg.ignoreKw)]

\* _gen_key orders mapping keys by the text "<type>_<value>"; for the names
\* of the model, all of type str, that is the alphabetical order of the names.
KeyNames == <<"a", "b", "flag", "noise">>

gen_key(name) == CHOOSE i \in 1..Len(KeyNames) : KeyNames[i] = name

RECURSIVE sorted_by_keys(_)
sorted_by_keys(dict_) ==
    IF dict_ = <<>> THEN <<>>
    ELSE LET least == CHOOSE i \in 1..Len(dict_) :
                        \A j \in 1..Len(dict_) :
                            gen_key(dict_[i][1]) < gen_key(dict_[j][1])
                            \/ (gen_key(dict_[i][1]) = gen_key(dict_[j][1]) /\ i <= j)
             rest == [j \in 1..(Len(dict_) - 1) |->
                        IF j < least THEN dict_[j] ELSE dict_[j + 1]]
         IN <<dict_[least]>> \o sorted_by_keys(rest)

\* A deep sort that leaves the elements of lists and tuples alone.
RECURSIVE sort_dicts_outside_sequences(_)
sort_dicts_outside_sequences(obj) ==
    CASE obj.kind = "dict" ->
            [obj EXCEPT !.parts =
                sorted_by_keys([i \in 1..Len(obj.parts) |->
                    <<obj.parts[i][1],
                      sort_dicts_outside_sequences(obj.parts[i][2])>>])]
      [] OTHER -> obj

\* _sort_dicts, as the value it leaves in place of obj: the elements of a
\* list or tuple and the values of a mapping are sorted in turn, and a dict
\* that is no OrderedDict is rebuilt in the order of _sorted_by_keys.
RECURSIVE sort_dicts(_)
sort_dicts(obj) ==
    CASE obj.kind \in {"list", "tuple"} ->
            [obj EXCEPT !.parts =
                [i \in 1..Len(obj.parts) |-> sort_dicts(obj.parts[i])]]
      [] obj.kind = "dict" ->
            [obj EXCEPT !.parts =
                sorted_by_keys([i \in 1..Len(obj.parts) |->
                    <<obj.parts[i][1], sort_dicts(obj.parts[i][2])>>])]
      [] obj.kind = "OrderedDict" ->
            [obj EXCEPT !.parts =
                [i \in 1..Len(obj.parts) |->
                    <<obj.parts[i][1], sort_dicts(obj.parts[i][2])>>]]
      [] OTHER -> obj

\* sorted_dicts_args: every positional argument deep-sorted.
sorted_dicts_args(args) == [i \in 1..Len(args) |-> sort_dicts(args[i])]

\* sorted_dicts: the keyword arguments in the order of _sorted_by_keys, every
\* value deep-sorted.
sorted_dicts(dict_) ==
    LET sorted_dict == sorted_by_keys(dict_)
    IN [i \in 1..Len(sorted_dict) |->
          <<sorted_dict[i][1], sort_dicts(sorted_dict[i][2])>>]

\* The caller's object when _sort_dicts, which rearranges in place, is given
\* the object itself.
rearranged_in_place(obj, sorted) == sorted

\* The caller's object when _sort_dicts is given copy.deepcopy(obj), as in
\* sorted_dicts_args and sorted_dicts: the copy is rearranged to `sorted`,
\* the object stays as it was.
after_deepcopy(obj, sorted) == obj

\* The text Python formats a value to (repr), as a sequence of tokens.
RECURSIVE repr(_)
RECURSIVE repr_items(_)
RECURSIVE repr_pairs(_)
repr_items(items) ==
    IF items = <<>> THEN <<>>
    ELSE repr(Head(items))
         \o (IF Len(items) > 1 THEN <<", ">> \o repr_items(Tail(items)) ELSE <<>>)

repr_pairs(items) ==
    IF items = <<>> THEN <<>>
    ELSE <<"'", Head(items)[1], "'", ": ">> \o repr(Head(items)[2])
         \o (IF Len(items) > 1 THEN <<", ">> \o repr_pairs(Tail(items)) ELSE <<>>)

repr(obj) ==
    CASE obj.kind = "int" -> <<ToString(obj.num)>>
      [] obj.kind = "str" -> <<"'", obj.parts[1], "'">>
      [] obj.kind = "list" -> <<"[">> \o repr_items(obj.parts) \o <<"]">>
      [] obj.kind = "tuple" ->
            <<"(">> \o repr_items(obj.parts)
            \o (IF Len(obj.parts) = 1 THEN <<",">> ELSE <<>>) \o <<")">>
      [] obj.kind = "dict" -> <<"{">> \o repr_pairs(obj.parts) \o <<"}">>
      [] obj.kind = "OrderedDict" ->
            <<"OrderedDict(", "{">> \o repr_pairs(obj.parts) \o <<"}", ")">>

\* hash_key: the digest of the text f"{sorted_args}, {sorted_kwargs}".  The
\* digest is modelled by the text it is computed from (SHA-256 taken as
\* collision free).
hash_key(args, kwargs) ==
    repr(Tuple(sorted_dicts_args(args))) \o <<", ">>
    \o repr(Dict(sorted_dicts(kwargs)))

\* A key is a text in which ":" separates segments; it is modelled by the
\* sequence of its segments, each a sequence of tokens.  A namespace is the
\* sequence of the names that ":" separates in it, <<>> when it is not given.
Text(name) == <<name>>

\* f"{func.__module__}.{func.__qualname__}"
DefaultNamespace == <<"module.func">>

\* resolved_namespace = namespace or the default.
resolved_namespace(namespace) ==
    IF namespace = <<>> THEN DefaultNamespace ELSE namespace

\* ":".join of the components (self.prefix, resolved_namespace) that are not
\* empty.
key_prefix_under(namespace) ==
    (IF cfg.prefix = "" THEN <<>> ELSE <<Text(cfg.prefix)>>)
    \o [i \in 1..Len(resolved_namespace(namespace)) |->
           Text(resolved_namespace(namespace)[i])]

key_prefix == key_prefix_under(cfg.namespace)

\* A key made of the prefix and the digest alone.
\* str(value) of an argument that is a text or a number.
str(obj) == IF obj.kind = "str" THEN <<obj.parts[1]>> ELSE repr(obj)

\* A key serializer passed by the caller: ":".join(str(a) for a in args).
join(args, kwargs) == [i \in 1..Len(args) |-> str(args[i])]

\* key_serializer(filtered_args, filtered_kwargs), as the segments of the
\* text it returns: the one segment of the digest by default.
key_serializer(args, kwargs) ==
    IF cfg.keySerializer = "join" THEN join(args, kwargs)
    ELSE <<hash_key(args, kwargs)>>

build_cache_key_without_namespace(namespace, input) ==
    LET filtered == normalize_parameters(input.args, input.kwargs)
    IN <<Text(cfg.prefix)>> \o key_serializer(filtered.args, filtered.kwargs)

\* _build_cache_key of the decorator with the given namespace.
build_cache_key_under(namespace, input) ==
    LET filtered == normalize_parameters(input.args, input.kwargs)
    IN key_prefix_under(namespace) \o key_serializer(filtered.args, filtered.kwargs)

\* _build_cache_key
build_cache_key(input) == build_cache_key_under(cfg.namespace, input)

\* The caller's arguments after _build_cache_key: _normalize_parameters puts
\* the arguments that are not ignored, themselves, into a new tuple and a
\* new dict, and hash_key sorts the mappings of what it is given.
caller_objects_after(input) ==
    IF cfg.keySerializer # "hash_key" THEN input
    ELSE [args |->
            [i \in 1..Len(input.args) |->
                IF (i - 1) \in cfg.ignorePos THEN input.args[i]
                ELSE after_deepcopy(input.args[i], sort_dicts(input.args[i]))],
          kwargs |->
            [i \in 1..Len(input.kwargs) |->
                IF input.kwargs[i][1] \in cfg.ignoreKw THEN input.kwargs[i]
                ELSE <<input.kwargs[i][1],
                       after_deepcopy(input.kwargs[i][2],
                                      sort_dicts(input.kwargs[i][2]))>>]]

lock_key(cache_key) == cache_key \o <<Text("lock")>>

\* ------------------------------------------------------------------ the store
Has(k) == k \in DOMAIN store
Put(s, k, v) == [x \in (DOMAIN s) \cup {k} |-> IF x = k THEN v ELSE s[x]]
Del(s, k) == [x \in (DOMAIN s) \ {k} |-> s[x]]

\* A stored record: val (the blob) and ttl (<<>>: no expiry, <<n>>: n ticks
\* left); by and of name the call that wrote it and that call's arguments,
\* which are not part of the program's state.
Blob(val, ttl, rec) == [val |-> val, ttl |-> ttl, by |-> rec.id, of |-> rec.input]

\* The outcome of an operation that returns or raises.
Returned(v) == [tag |-> "return", v |-> v]
Raised(e) == [tag |-> "raise", v |-> <<e>>]

\* A load that lets the failure of the get through.
load_raising_on_failed_get(cache_key, ok) ==
    IF ~ok THEN Raised("store")
    ELSE IF ~Has(cache_key) THEN [tag |-> "none"]
    ELSE [tag |-> "entry", entry |-> store[cache_key].val]

\* A load that takes every blob that is no entry for an absent key.
load_undecodable_as_none(cache_key, ok) ==
    IF ~ok \/ ~Has(cache_key) THEN [tag |-> "none"]
    ELSE IF store[cache_key].val.kind = "entry"
    THEN [tag |-> "entry", entry |-> store[cache_key].val]
    ELSE [tag |-> "none"]

\* _load_cached_response: None on a failed get, an absent key, a blob that is
\* no mapping or has no "value"; a blob that cannot be decoded (the lock
\* marker b"1" is one) is None under ignore_validation_error and raises
\* otherwise.
load_cached_response(cache_key, ok) ==
    IF ~ok \/ ~Has(cache_key) THEN [tag |-> "none"]
    ELSE LET raw == store[cache_key].val
         IN CASE raw.kind = "entry" -> [tag |-> "entry", entry |-> raw]
              [] raw.kind \in {"undecodable", "marker"} ->
                    IF cfg.ignoreErr THEN [tag |-> "none"] ELSE Raised("decode")
              [] OTHER -> [tag |-> "none"]

\* A resolve that takes the error of the validation function for a rejection
\* under both policies.
resolve_swallowing_validation_error(cache_key, ok) ==
    LET cached_response == load_cached_response(cache_key, ok)
    IN CASE cached_response.tag = "raise" -> cached_response
         [] cached_response.tag = "none" -> Returned(NoneVal)
         [] OTHER ->
              IF cfg.validation \in {"unset", "accept"}
              THEN Returned(cached_response.entry.value)
              ELSE Returned(NoneVal)

\* _resolve_cached_value: the entry's value if it loads and validates, None
\* otherwise; a raising validation function is None under
\* ignore_validation_error and raises otherwise.
resolve_cached_value(cache_key, ok) ==
    LET cached_response == load_cached_response(cache_key, ok)
    IN CASE cached_response.tag = "raise" -> cached_response
         [] cached_response.tag = "none" -> Returned(NoneVal)
         [] OTHER ->
              CASE cfg.validation \in {"unset", "accept"} ->
                        Returned(cached_response.entry.value)
                [] cfg.validation = "raise" ->
                        IF cfg.ignoreErr THEN Returned(NoneVal) ELSE Raised("validation")
                [] OTHER -> Returned(NoneVal)

\* The store holds an entry for the key that decodes to a mapping with a
\* value and that the validation function accepts.
ValidEntry(cache_key) ==
    /\ Has(cache_key)
    /\ store[cache_key].val.kind = "entry"
    /\ cfg.validation \in {"unset", "accept"}

\* -------------------------------------------------------------- the wrapper
\* One record per caller: the position of its current call in wrapper (pc),
\* the call's locals (input, cache_key, have_lock, deadline as ticks left,
\* result) and
\* its outcome (ret).  The other fields record what the call did and are not
\* part of the program's state: id (the call's number), invoked (func was
\* called), timed_out (the poll loop ended with the deadline elapsed), first
\* (what the first cache check met: "absent", "valid" or "other"), found
\* (the valid entry the first check met, with its writer's arguments),
\* refound (the last valid entry a re-check of the poll loop or the final
\* re-check met), release and
\* persist (what became of the delete of the lock and of the set of the
\* entry), lock_lost (the lock key this call set expired or was deleted by
\* another call while the call was running), committed (the number of the
\* commit a mutation of the chat service made last), wrote (the ids of the
\* rows it inserted), existed (the conversation a listing of messages names
\* was in the database when the listing was called).
IdleCall ==
    [pc |-> "idle", input |-> NoInput, cache_key |-> <<>>,
     have_lock |-> FALSE, deadline |-> 0,
     result |-> NoneVal, ret |-> [tag |-> "none", v |-> NoneVal],
     id |-> 0, invoked |-> FALSE, timed_out |-> FALSE, first |-> "pending",
     found |-> <<>>, refound |-> <<>>,
     release |-> "none", persist |-> "none", lock_lost |-> FALSE,
     op |-> "call", batch |-> {}, deleted |-> 0, present |-> {},
     yielded |-> {}, removed |-> {}, failed |-> FALSE, upto |-> 0,
     passed |-> NoInput, committed |-> 0, wrote |-> {}, existed |-> TRUE]

InFlight == {"first_get", "loop_get", "set_lock", "sleep", "final_get", "func",
             "persist", "release_raise", "release_skip", "release_final"}
Ended == {"done", "crashed", "cancelled"}

cache_key_of(c) == call[c].cache_key

\* A lock TTL rounded down and one second added, in place of rounding up.
lock_ttl_floor_plus_one ==
    ((cfg.maxWait \div TicksPerSecond) + 1) * TicksPerSecond

\* lock_ttl = max(int(math.ceil(concurrent_max_wait_time)), 1), in ticks.
lock_ttl ==
    LET seconds == (cfg.maxWait + TicksPerSecond - 1) \div TicksPerSecond
    IN (IF seconds > 1 THEN seconds ELSE 1) * TicksPerSecond

\* return / raise out of wrapper.
Finish(rec, outcome) ==
    [rec EXCEPT !.pc = "done", !.ret = outcome, !.deadline = 0, !.result = NoneVal]

\* result = await func(*args, **kwargs): the computation starts.
Invoke(rec) == [rec EXCEPT !.pc = "func", !.invoked = TRUE]

\* What a cache check does with the answer of _resolve_cached_value: raise,
\* return the cached value, or go on to `miss`.
AfterCheck(rec, answer, miss) ==
    IF answer.tag = "raise" THEN Finish(rec, answer)
    ELSE IF answer.v # NoneVal THEN Finish(rec, Returned(answer.v))
    ELSE miss

Seen(rec, cache_key, ok) ==
    LET met == IF ~ok THEN "failed"
               ELSE IF ValidEntry(cache_key) THEN "valid"
               ELSE IF ~Has(cache_key) THEN "absent"
               ELSE IF store[cache_key].val.kind = "entry" THEN "other"
               ELSE store[cache_key].val.kind
        entry == <<[value |-> store[cache_key].val.value,
                    of |-> store[cache_key].of,
                    by |-> store[cache_key].by]>>
    IN IF rec.first = "pending"
       THEN [rec EXCEPT !.first = met,
                        !.found = IF met = "valid" THEN entry ELSE <<>>]
       ELSE IF met = "valid" THEN [rec EXCEPT !.refound = entry]
       ELSE rec

\* wrapper(*args, **kwargs) is called: the key is derived, the first cache
\* check is under way.
StartWithin(c, input, limit) ==
    /\ call[c].pc \in {"idle", "done"}
    /\ ncalls < limit
    /\ ncalls' = ncalls + 1
    /\ call' = [call EXCEPT ![c] =
                  [IdleCall EXCEPT !.pc = "first_get",
                                   !.input = caller_objects_after(input),
                                   !.passed = input,
                                   !.cache_key = build_cache_key(input),
                                   !.id = ncalls + 1]]
    /\ UNCHANGED <<cfg, store, db>>

Start(c, input) == StartWithin(c, input, MaxCalls)

\* A wrapper that coordinates also at a wait ceiling of zero.
coordinates_from_zero == cfg.maxWait >= 0

\* if concurrent_max_wait_time > 0: callers coordinate through the lock key.
coordinates == cfg.maxWait > 0

\* The first cache check; on a miss the deadline is set and the loop entered
\* (concurrent_max_wait_time > 0) or the computation is invoked.
FirstGet(c) ==
    /\ call[c].pc = "first_get"
    /\ \E ok \in StoreOutcomes :
         LET rec == Seen(call[c], cache_key_of(c), ok)
             answer == resolve_cached_value(cache_key_of(c), ok)
             miss == IF coordinates
                     THEN [rec EXCEPT !.pc = "loop_get", !.deadline = cfg.maxWait]
                     ELSE Invoke(rec)
         IN call' = [call EXCEPT ![c] = AfterCheck(rec, answer, miss)]
    /\ UNCHANGED <<cfg, store, ncalls, db>>

\* The re-check at the head of a poll iteration.
LoopGet(c) ==
    /\ call[c].pc = "loop_get"
    /\ \E ok \in StoreOutcomes :
         LET rec == Seen(call[c], cache_key_of(c), ok)
             answer == resolve_cached_value(cache_key_of(c), ok)
         IN call' = [call EXCEPT ![c] =
                        AfterCheck(rec, answer, [rec EXCEPT !.pc = "set_lock"])]
    /\ UNCHANGED <<cfg, store, ncalls, db>>

\* A set of the lock key without nx=True: it succeeds over a present key.
SetLockWithoutNx(cache_key, ok) == ok

\* client.set(lock_key, b"1", nx=True, ex=lock_ttl): the caller that finds the
\* key absent sets it and goes on to compute; a failed command counts as not
\* acquired.
SetLockAcquires(cache_key, ok) == ok /\ ~Has(lock_key(cache_key))

SetLock(c) ==
    /\ call[c].pc = "set_lock"
    /\ \E ok \in StoreOutcomes :
         IF SetLockAcquires(cache_key_of(c), ok)
         THEN /\ store' = Put(store, lock_key(cache_key_of(c)),
                              Blob([kind |-> "marker"], <<lock_ttl>>, call[c]))
              /\ call' = [call EXCEPT ![c] = Invoke([@ EXCEPT !.have_lock = TRUE])]
         ELSE /\ call' = [call EXCEPT ![c].pc = "sleep"]
              /\ UNCHANGED store
    /\ UNCHANGED <<cfg, ncalls, db>>

\* A poll loop that gives up after its first iteration.
LoopStopsAtOnce(rec) == FALSE

\* A poll loop that ignores the deadline.
LoopNeverStops(rec) == TRUE

\* asyncio.sleep(effective_check_interval) returns and the loop condition
\* time.monotonic() < deadline is evaluated.
LoopContinues(rec) == rec.deadline > 0

Wake(c) ==
    /\ call[c].pc = "sleep"
    /\ call' = [call EXCEPT ![c] =
                  IF LoopContinues(@) THEN [@ EXCEPT !.pc = "loop_get"]
                  ELSE [@ EXCEPT !.pc = "final_get",
                                 !.timed_out = (call[c].deadline = 0)]]
    /\ UNCHANGED <<cfg, store, ncalls, db>>

\* The final re-check of a caller whose deadline elapsed without the lock.
FinalGet(c) ==
    /\ call[c].pc = "final_get"
    /\ \E ok \in StoreOutcomes :
         LET rec == Seen(call[c], cache_key_of(c), ok)
             answer == resolve_cached_value(cache_key_of(c), ok)
         IN call' = [call EXCEPT ![c] = AfterCheck(rec, answer, Invoke(rec))]
    /\ UNCHANGED <<cfg, store, ncalls, db>>

\* A failure of the computation re-raised without the release of the lock.
RaiseWithoutRelease(rec) == Finish(rec, Raised("func"))

\* The wrapped computation raises: a lock holder goes on to delete the lock,
\* then the error is re-raised.
AfterRaise(rec) ==
    IF rec.have_lock
    THEN [rec EXCEPT !.pc = "release_raise", !.ret = Raised("func")]
    ELSE Finish(rec, Raised("func"))

FuncRaise(c) ==
    /\ call[c].pc = "func"
    /\ call' = [call EXCEPT ![c] = AfterRaise(@)]
    /\ UNCHANGED <<cfg, store, ncalls, db>>

\* ttl is not None and float(ttl) <= 0: nothing is persisted.
SkipsPersistOnlyNegative == cfg.ttl # <<>> /\ cfg.ttl[1] < 0

SkipsPersist == cfg.ttl # <<>> /\ cfg.ttl[1] <= 0

\* A release that is skipped when the call leaves by raising.
ReleaseOnlyOnReturn(rec, pc, outcome) ==
    IF rec.have_lock /\ outcome.tag = "return"
    THEN [rec EXCEPT !.pc = pc, !.ret = outcome]
    ELSE Finish(rec, outcome)

\* Leave through the lock release when the lock is held, directly otherwise.
ThroughRelease(rec, pc, outcome) ==
    IF rec.have_lock THEN [rec EXCEPT !.pc = pc, !.ret = outcome]
    ELSE Finish(rec, outcome)

\* The wrapped computation returns: persistence is skipped (ttl <= 0), the
\* serializer fails (raises or returns no bytes), or the set is issued.
Returning(rec, result) ==
    LET got == [rec EXCEPT !.result = result]
    IN IF SkipsPersist
       THEN ThroughRelease([got EXCEPT !.persist = "skipped"], "release_skip",
                           Returned(result))
       ELSE IF cfg.serializer # "bytes"
       THEN ThroughRelease([got EXCEPT !.persist = "failed"], "release_final",
                           IF cfg.ignoreErr THEN Returned(result)
                           ELSE Raised("serializer"))
       ELSE [got EXCEPT !.pc = "persist"]

AfterReturn(rec) == Returning(rec, Func(rec.input))

FuncReturn(c) ==
    /\ call[c].pc = "func"
    /\ call' = [call EXCEPT ![c] = AfterReturn(@)]
    /\ UNCHANGED <<cfg, store, ncalls, db>>

\* A payload that leaves the result out.
payload_without_result(rec) ==
    [kind |-> "entry", value |-> NoneVal,
     parameters |-> normalize_parameters(rec.input.args, rec.input.kwargs)]

\* The payload written under the data key.
cache_payload(rec) ==
    [kind |-> "entry", value |-> rec.result,
     parameters |-> normalize_parameters(rec.input.args, rec.input.kwargs)]

\* client.set(cache_key, serialized, **ttl_kwargs); a failed set is swallowed
\* under ignore_validation_error and raised otherwise, after the release.
Persist(c) ==
    /\ call[c].pc = "persist"
    /\ \E ok \in StoreOutcomes :
         IF ok
         THEN /\ store' = Put(store, cache_key_of(c),
                              Blob(cache_payload(call[c]), cfg.ttl, call[c]))
              /\ call' = [call EXCEPT ![c] =
                            ThroughRelease([@ EXCEPT !.persist = "stored"],
                                           "release_final", Returned(@.result))]
         ELSE /\ call' = [call EXCEPT ![c] =
                            ThroughRelease([@ EXCEPT !.persist = "failed"],
                                           "release_final",
                                           IF cfg.ignoreErr THEN Returned(@.result)
                                           ELSE Raised("store"))]
              /\ UNCHANGED store
    /\ UNCHANGED <<cfg, ncalls, db>>

\* client.delete(lock_key), errors swallowed: the key is deleted whoever set
\* it.  A call whose lock is deleted by another call's release is marked.
LoseLocks(keys, except) ==
    [d \in Callers |->
        IF d # except /\ call[d].pc \in InFlight /\ call[d].have_lock
           /\ \E k \in keys : Has(k) /\ store[k].by = call[d].id
        THEN [call[d] EXCEPT !.lock_lost = TRUE] ELSE call[d]]

LoseLock(k, except) == LoseLocks({k}, except)

ReleaseLock(c, pc) ==
    /\ call[c].pc = pc
    /\ \E ok \in StoreOutcomes :
         LET k == lock_key(cache_key_of(c))
         IN IF ok
            THEN /\ store' = Del(store, k)
                 /\ call' = [LoseLock(k, c) EXCEPT ![c] =
                               Finish([@ EXCEPT !.release = "deleted"], @.ret)]
            ELSE /\ call' = [call EXCEPT ![c] =
                               Finish([@ EXCEPT !.release = "failed"], @.ret)]
                 /\ UNCHANGED store
    /\ UNCHANGED <<cfg, ncalls, db>>

ReleaseAfterRaise(c) == ReleaseLock(c, "release_raise")
ReleaseAfterSkip(c) == ReleaseLock(c, "release_skip")
ReleaseFinally(c) == ReleaseLock(c, "release_final")

\* ------------------------------------------------------------ environment
\* The holder's process dies: nothing more of the call runs.
Crash(c) ==
    /\ call[c].pc \in InFlight
    /\ call[c].have_lock
    /\ call' = [call EXCEPT ![c].pc = "crashed"]
    /\ UNCHANGED <<cfg, store, ncalls, db>>

\* The call's task is cancelled while the computation is awaited:
\* CancelledError is no Exception, so the except clause of line 311 does not
\* run and the call unwinds at once.
CancelInFunc(c) ==
    /\ call[c].pc = "func"
    /\ call' = [call EXCEPT ![c] =
                  [@ EXCEPT !.pc = "cancelled", !.ret = Raised("cancelled")]]
    /\ UNCHANGED <<cfg, store, ncalls, db>>

\* The call's task is cancelled while the set of line 348 is awaited: the
\* finally clause runs and deletes a held lock.
CancelInPersist(c) ==
    /\ call[c].pc = "persist"
    /\ call' = [call EXCEPT ![c] =
                  IF @.have_lock
                  THEN [@ EXCEPT !.pc = "release_final", !.ret = Raised("cancelled")]
                  ELSE [@ EXCEPT !.pc = "cancelled", !.ret = Raised("cancelled")]]
    /\ UNCHANGED <<cfg, store, ncalls, db>>

\* One tick of time: every deadline and every expiry comes one tick closer,
\* and the store drops the keys whose time to live has run out.
Expires(s, k) == s[k].ttl # <<>> /\ s[k].ttl[1] <= 1

Tick ==
    /\ store' = [k \in {x \in DOMAIN store : ~Expires(store, x)} |->
                    IF store[k].ttl = <<>> THEN store[k]
                    ELSE [store[k] EXCEPT !.ttl = <<@[1] - 1>>]]
    /\ call' = [c \in Callers |->
                  LET k == lock_key(cache_key_of(c))
                      lost == /\ call[c].pc \in InFlight
                              /\ call[c].have_lock
                              /\ Has(k) /\ store[k].by = call[c].id
                              /\ Expires(store, k)
                  IN [call[c] EXCEPT
                        !.deadline = IF @ > 0 THEN @ - 1 ELSE 0,
                        !.lock_lost = @ \/ lost]]
    /\ UNCHANGED <<cfg, ncalls, db>>

\* ------------------------------------------------------------- specification
Configs(maxWaits, ttls, policies, ignores, stores, serializers) ==
    { [maxWait |-> mw, ttl |-> t, ignoreErr |-> p,
       ignorePos |-> ig[1], ignoreKw |-> ig[2],
       validation |-> "unset", serializer |-> sz, store |-> st,
       prefix |-> "rc", namespace |-> <<"fn">>, func |-> "async_def",
       keySerializer |-> "hash_key"] :
        mw \in maxWaits, t \in ttls, p \in policies, ig \in ignores,
        st \in stores, sz \in serializers }

InitWith(configs) ==
    /\ cfg \in configs
    /\ store = << >>
    /\ call = [c \in Callers |-> IdleCall]
    /\ ncalls = 0
    /\ db = NoRows

Progress(c) ==
    \/ FirstGet(c)
    \/ LoopGet(c)
    \/ SetLock(c)
    \/ Wake(c)
    \/ FinalGet(c)
    \/ FuncRaise(c)
    \/ FuncReturn(c)
    \/ Persist(c)
    \/ ReleaseAfterRaise(c)
    \/ ReleaseAfterSkip(c)
    \/ ReleaseFinally(c)

\* The wrapper with a reliable store: every wait ceiling up to MaxWaitTicks
\* with ttl=None, no coordination with ttl=0, a negative ttl and a ttl of one
\* second, and the largest wait ceiling with ttl=0.
SpecConfigs ==
    Configs(0..MaxWaitTicks, {<<>>}, {TRUE},
            {<<{0}, {"noise"}>>}, {"up"}, {"bytes"})
    \cup Configs({0}, {<<0>>, <<-1>>, <<TicksPerSecond>>}, {TRUE},
                 {<<{0}, {"noise"}>>}, {"up"}, {"bytes"})
    \cup Configs({MaxWaitTicks}, {<<0>>}, {TRUE},
                 {<<{0}, {"noise"}>>}, {"up"}, {"bytes"})

Init == InitWith(SpecConfigs)

NextWith(inputs) ==
    \/ \E c \in Callers : \E input \in inputs : Start(c, input)
    \/ \E c \in Callers : Progress(c)
    \/ \E c \in Callers : Crash(c)
    \/ \E c \in Callers : CancelInFunc(c)
    \/ \E c \in Callers : CancelInPersist(c)
    \/ Tick

Next == NextWith(Inputs)

Spec == Init /\ [][Next]_vars

\* One argument tuple, whose computation returns a value that is not None.
OneInput == {[args |-> <<PyInt(1), PyInt(5)>>, kwargs |-> <<<<"noise", PyInt(1)>>>>]}

\* The wrapper with a store whose every command may fail, with the
\* serializers that return bytes, return no bytes and raise, under both error
\* policies, at the largest wait ceiling; and with a store that is
\* unreachable, under the ignore policy, without and with coordination.
FaultConfigs ==
    Configs({MaxWaitTicks}, {<<>>, <<0>>}, BOOLEAN,
            {<<{0}, {"noise"}>>}, {"flaky"}, {"bytes", "nonbytes", "raises"})
    \cup Configs({0, MaxWaitTicks}, {<<>>}, {TRUE},
                 {<<{0}, {"noise"}>>}, {"down"}, {"bytes"})

FaultInit == InitWith(FaultConfigs)

FaultNext == NextWith(OneInput)

FaultSpec == FaultInit /\ [][FaultNext]_vars

\* wrapper.cache_key_for(*call_args, **call_kwargs): the key the wrapper
\* would use for the arguments, returned without touching the store.
cache_key_for(c, input) ==
    /\ call[c].pc \in {"idle", "done"}
    /\ LET cache_key == build_cache_key(input)
       IN call' = [call EXCEPT ![c] =
                     Finish([IdleCall EXCEPT !.input = caller_objects_after(input),
                                             !.passed = input,
                                             !.cache_key = cache_key],
                            Returned(cache_key))]
    /\ UNCHANGED <<cfg, store, ncalls, db>>

\* Arguments that hold mappings and sequences: a dict and an OrderedDict in
\* both insertion orders, bare, inside a list, inside a tuple and as the
\* value of a dict and of an OrderedDict; a list in both element orders; and
\* keyword arguments in both orders.
AB == << <<"a", PyInt(1)>>, <<"b", PyInt(2)>> >>
BA == << <<"b", PyInt(2)>>, <<"a", PyInt(1)>> >>

KeyValues ==
    { PyInt(1),
      List(<<PyInt(1), PyInt(2)>>), List(<<PyInt(2), PyInt(1)>>),
      Tuple(<<PyInt(1), PyInt(2)>>) }
    \cup { Dict(items) : items \in {AB, BA} }
    \cup { OrderedDict(items) : items \in {AB, BA} }
    \cup { List(<<Dict(items)>>) : items \in {AB, BA} }
    \cup { Tuple(<<Dict(items)>>) : items \in {AB, BA} }
    \cup { Dict(<< <<"a", Dict(items)>> >>) : items \in {AB, BA} }
    \cup { OrderedDict(<< <<"a", Dict(items)>> >>) : items \in {AB, BA} }

KeyInputs ==
    { [args |-> <<v>>, kwargs |-> <<>>] : v \in KeyValues }
    \cup { [args |-> <<>>,
            kwargs |-> << <<"flag", PyInt(1)>>, <<"noise", Dict(AB)>> >>],
           [args |-> <<>>,
            kwargs |-> << <<"noise", Dict(BA)>>, <<"flag", PyInt(1)>> >>] }

\* The namespaces of the model: not given, one name, and that name followed
\* by ":" and a second name.
Namespaces == {<<>>, <<"fn">>, <<"fn", "v2">>}

\* The decorators of the given configurations under every prefix and
\* namespace given.
Under(configs, prefixes, namespaces) ==
    { [config EXCEPT !.prefix = p, !.namespace = ns] :
        config \in configs, p \in prefixes, ns \in namespaces }

\* Decorators that ignore no argument and do not coordinate, under the
\* default prefix and under an empty one, with every namespace.
KeyConfigs ==
    Under(Configs({0}, {<<>>}, {TRUE}, {<<{}, {}>>}, {"up"}, {"bytes"}),
          {"rc", ""}, Namespaces)

KeyInit == InitWith(KeyConfigs)

\* cache_key_for on every argument of KeyInputs, and the wrapper called
\* with one argument tuple.
KeyNext ==
    \/ \E c \in Callers : \E input \in KeyInputs : cache_key_for(c, input)
    \/ \E c \in Callers : \E input \in OneInput : Start(c, input)
    \/ \E c \in Callers : FirstGet(c)
    \/ \E c \in Callers : FuncRaise(c)
    \/ \E c \in Callers : FuncReturn(c)
    \/ \E c \in Callers : Persist(c)

KeySpec == KeyInit /\ [][KeyNext]_vars

\* ------------------------------------------------------------- control API
\* A control operation begins: it takes the next number in the order in
\* which calls and operations start.
Operation(op, input) ==
    [IdleCall EXCEPT !.op = op, !.input = caller_objects_after(input),
                     !.passed = input,
                     !.cache_key = build_cache_key(input),
                     !.id = ncalls + 1]

CanBegin(c) ==
    /\ call[c].pc \in {"idle", "done"}
    /\ ncalls < MaxOps

\* A control operation returns or raises; `upto` is the number of calls and
\* operations that had started by then.
Complete(rec, outcome) ==
    [Finish(rec, outcome) EXCEPT
        !.upto = IF rec.id > ncalls THEN rec.id ELSE ncalls]

\* The outcome of a control operation whose store command failed: the
\* fallback value under ignore_validation_error, the error otherwise.
AfterFailure(rec, fallback) ==
    Complete([rec EXCEPT !.failed = TRUE],
           IF cfg.ignoreErr THEN Returned(fallback) ELSE Raised("store"))

\* A count of deleted keys that is the number of keys named in the command.
delete_count_of_request(s, keys) == Cardinality(keys)

\* The reply of client.delete(*keys): the number of keys that were present.
delete_count(s, keys) == Cardinality(keys \cap DOMAIN s)

DelAll(s, keys) == [x \in (DOMAIN s) \ keys |-> s[x]]

\* The keys of `keys` that are in the store, each with the number of the
\* call that wrote it.
Written(keys) == { <<k, store[k].by>> : k \in keys \cap DOMAIN store }

\* wrapper.invalidate(*args, **kwargs): one delete of the data key.
invalidate(c, input) ==
    /\ CanBegin(c)
    /\ ncalls' = ncalls + 1
    /\ \E ok \in StoreOutcomes :
         LET rec == Operation("invalidate", input)
             k == rec.cache_key
         IN IF ok
            THEN /\ store' = Del(store, k)
                 /\ call' = [call EXCEPT ![c] =
                               Complete([rec EXCEPT !.removed = Written({k})],
                                      Returned(<<delete_count(store, {k})>>))]
            ELSE /\ call' = [call EXCEPT ![c] = AfterFailure(rec, <<0>>)]
                 /\ UNCHANGED store
    /\ UNCHANGED <<cfg, db>>

\* wrapper.is_cached(*args, **kwargs): one exists of the data key.
is_cached(c, input) ==
    /\ CanBegin(c)
    /\ ncalls' = ncalls + 1
    /\ \E ok \in StoreOutcomes :
         LET rec == Operation("is_cached", input)
         IN call' = [call EXCEPT ![c] =
                       IF ok THEN Complete(rec, Returned(<<Has(rec.cache_key)>>))
                       ELSE AfterFailure(rec, <<FALSE>>)]
    /\ UNCHANGED <<cfg, store, db>>

\* A pattern that matches the key prefix followed by one more component.
matches_only_data_keys(k) ==
    /\ Len(k) = Len(key_prefix) + 1
    /\ SubSeq(k, 1, Len(key_prefix)) = key_prefix

\* A test that takes every answer, None included, for a value.
any_value(cached) == TRUE

\* cached is not None
is_value(cached) == cached # NoneVal

\* wrapper.has_valid_value(*args, **kwargs): whether _resolve_cached_value
\* gives a value that is not None.
has_valid_value(c, input) ==
    /\ CanBegin(c)
    /\ ncalls' = ncalls + 1
    /\ \E ok \in StoreOutcomes :
         LET rec == Seen(Operation("has_valid_value", input),
                         build_cache_key(input), ok)
             answer == resolve_cached_value(rec.cache_key, ok)
         IN call' = [call EXCEPT ![c] =
                       IF answer.tag = "raise" THEN Complete(rec, answer)
                       ELSE Complete(rec, Returned(<<is_value(answer.v)>>))]
    /\ UNCHANGED <<cfg, store, db>>

\* wrapper.get_cached_timestamp(*args, **kwargs): the "timestamp" of the
\* loaded entry, None when nothing loads.  The time of the write is
\* modelled by the number of the call that wrote the entry.
get_cached_timestamp(c, input) ==
    /\ CanBegin(c)
    /\ ncalls' = ncalls + 1
    /\ \E ok \in StoreOutcomes :
         LET rec == Seen(Operation("get_cached_timestamp", input),
                         build_cache_key(input), ok)
             cached_response == load_cached_response(rec.cache_key, ok)
         IN call' = [call EXCEPT ![c] =
                       CASE cached_response.tag = "raise" ->
                                Complete(rec, cached_response)
                         [] cached_response.tag = "none" ->
                                Complete(rec, Returned(NoneVal))
                         [] OTHER ->
                                Complete(rec, Returned(<<store[rec.cache_key].by>>))]
    /\ UNCHANGED <<cfg, store, db>>

\* A key that the glob pattern f"{key_prefix}:*" matches: the key prefix,
\* a ":" and anything.
matches_pattern(k) ==
    /\ Len(k) > Len(key_prefix)
    /\ SubSeq(k, 1, Len(key_prefix)) = key_prefix

Matching == {k \in DOMAIN store : matches_pattern(k)}

\* wrapper.invalidate_all() is called: the scan begins.  `present` holds the
\* matching keys in the store at this moment, which the scan yields unless
\* they are removed meanwhile.
invalidate_all(c) ==
    /\ CanBegin(c)
    /\ ncalls' = ncalls + 1
    /\ call' = [call EXCEPT ![c] =
                  [Operation("invalidate_all", NoInput) EXCEPT
                      !.pc = "scan", !.present = Matching]]
    /\ UNCHANGED <<cfg, store, db>>

\* One step of `async for cache_key in self.client.scan_iter(pattern)`: the
\* scan fails, or yields a matching key it has not yielded, which is appended
\* to the batch (a full batch is deleted next), or ends once every key that
\* has been there since it began was yielded.
Scan(c) ==
    /\ call[c].pc = "scan"
    /\ \E ok \in StoreOutcomes :
         IF ~ok
         THEN call' = [call EXCEPT ![c] = AfterFailure(@, <<@.deleted>>)]
         ELSE \/ \E k \in Matching \ call[c].yielded :
                   call' = [call EXCEPT ![c] =
                              [@ EXCEPT !.batch = @ \cup {k},
                                        !.yielded = @ \cup {k},
                                        !.pc = IF Cardinality(call[c].batch) + 1 >= BatchSize
                                               THEN "delete_batch" ELSE "scan"]]
              \/ /\ (call[c].present \cap DOMAIN store) \subseteq call[c].yielded
                 /\ call' = [call EXCEPT ![c] =
                               IF @.batch # {}
                               THEN [@ EXCEPT !.pc = "delete_rest"]
                               ELSE Complete(@, Returned(<<@.deleted>>))]
    /\ UNCHANGED <<cfg, store, ncalls, db>>

\* deleted += int(await self.client.delete(*batch) or 0), of a full batch
\* inside the loop and of the rest after it.
DeleteKeys(c, pc) ==
    /\ call[c].pc = pc
    /\ \E ok \in StoreOutcomes :
         IF ok
         THEN LET rec == [call[c] EXCEPT
                            !.deleted = @ + delete_count(store, call[c].batch),
                            !.removed = @ \cup Written(call[c].batch),
                            !.batch = {}]
              IN /\ store' = DelAll(store, call[c].batch)
                 /\ call' = [LoseLocks(call[c].batch, c) EXCEPT ![c] =
                               IF pc = "delete_batch"
                               THEN [rec EXCEPT !.pc = "scan"]
                               ELSE Complete(rec, Returned(<<rec.deleted>>))]
         ELSE /\ call' = [call EXCEPT ![c] = AfterFailure(@, <<@.deleted>>)]
              /\ UNCHANGED store
    /\ UNCHANGED <<cfg, ncalls, db>>

DeleteBatch(c) == DeleteKeys(c, "delete_batch")
DeleteRest(c) == DeleteKeys(c, "delete_rest")

\* Another writer of the store leaves, under a data key of the empty store,
\* a blob that the deserializer rejects ("undecodable"), that decodes to
\* something that is no mapping ("nondict"), or that decodes to a mapping
\* without "value" ("novalue").
BadBlobs == {"undecodable", "nondict", "novalue"}

Corrupt(input, kind) ==
    /\ store = << >>
    /\ store' = Put(store, build_cache_key(input),
                    Blob([kind |-> kind], <<>>, [id |-> 0, input |-> input]))
    /\ UNCHANGED <<cfg, call, ncalls, db>>

\* Two argument tuples with different keys, whose computations return values
\* that are not None.
ApiInputs ==
    { [args |-> <<PyInt(1), PyInt(5)>>, kwargs |-> << <<"noise", PyInt(1)>> >>],
      [args |-> <<PyInt(1), PyInt(6)>>, kwargs |-> << <<"noise", PyInt(1)>> >>] }

\* The wrapper and its control operations: without coordination over a
\* store whose every command may fail, under both error policies, and with
\* a wait of one tick over a reliable store.  Both callers call the wrapper;
\* the control operations are the second caller's.
ApiConfigs ==
    Configs({0}, {<<>>}, BOOLEAN,
            {<<{0}, {"noise"}>>}, {"flaky"}, {"bytes"})
    \cup Configs({1}, {<<>>}, {TRUE},
                 {<<{0}, {"noise"}>>}, {"up"}, {"bytes"})

Controller == 2

ApiInit == InitWith(ApiConfigs)

ApiNext ==
    \/ \E c \in Callers : \E input \in ApiInputs : StartWithin(c, input, MaxOps)
    \/ \E c \in Callers : FirstGet(c)
    \/ \E c \in Callers : LoopGet(c)
    \/ \E c \in Callers : SetLock(c)
    \/ \E c \in Callers : Wake(c)
    \/ \E c \in Callers : FinalGet(c)
    \/ \E c \in Callers : FuncReturn(c)
    \/ \E c \in Callers : Persist(c)
    \/ \E c \in Callers : ReleaseFinally(c)
    \/ \E input \in ApiInputs : invalidate(Controller, input)
    \/ \E input \in ApiInputs : is_cached(Controller, input)
    \/ invalidate_all(Controller)
    \/ \E c \in Callers : Scan(c)
    \/ \E c \in Callers : DeleteBatch(c)
    \/ \E c \in Callers : DeleteRest(c)
    \/ \E input \in OneInput : \E kind \in BadBlobs : Corrupt(input, kind)
    \/ Tick

ApiSpec == ApiInit /\ [][ApiNext]_vars

\* ------------------------------------------------------- validation function
\* Two argument tuples with different keys: the computation of the first
\* returns a value that is not None, that of the second returns None.
ValidInputs ==
    { [args |-> <<PyInt(1), PyInt(5)>>, kwargs |-> << <<"noise", PyInt(1)>> >>],
      [args |-> <<PyInt(1), PyInt(0)>>, kwargs |-> << <<"noise", PyInt(1)>> >>] }

\* The validation functions of the model: none, one that accepts every
\* entry, one that rejects every entry and one that raises.
Validations == {"unset", "accept", "reject", "raise"}

\* The wrapper with each validation function over a reliable store, under
\* both error policies, without coordination and with a wait of one tick.
\* Both callers call the wrapper; the second caller also asks is_cached and
\* has_valid_value, and another writer leaves blobs that are no entries.
ValidConfigs ==
    { [config EXCEPT !.validation = v] :
        config \in Configs({0, 1}, {<<>>}, BOOLEAN,
                           {<<{0}, {"noise"}>>}, {"up"}, {"bytes"}),
        v \in Validations }

ValidInit == InitWith(ValidConfigs)

ValidNext ==
    \/ \E c \in Callers : \E input \in ValidInputs : Start(c, input)
    \/ \E input \in ValidInputs : is_cached(Controller, input)
    \/ \E input \in ValidInputs : has_valid_value(Controller, input)
    \/ \E input \in OneInput : \E kind \in BadBlobs : Corrupt(input, kind)
    \/ \E c \in Callers : FirstGet(c)
    \/ \E c \in Callers : LoopGet(c)
    \/ \E c \in Callers : SetLock(c)
    \/ \E c \in Callers : Wake(c)
    \/ \E c \in Callers : FinalGet(c)
    \/ \E c \in Callers : FuncReturn(c)
    \/ \E c \in Callers : Persist(c)
    \/ \E c \in Callers : ReleaseFinally(c)
    \/ Tick

ValidSpec == ValidInit /\ [][ValidNext]_vars

\* ------------------------------------------------------------------ wrapping
\* A check that takes every callable for a coroutine function.
accepts_every_callable(func) == TRUE

\* inspect.iscoroutinefunction(func): true of a function defined with
\* `async def`, false of one defined with `def`.
iscoroutinefunction(func) == func = "async_def"

\* Before the decorator is applied there is no wrapper to call.
Unwrapped == [IdleCall EXCEPT !.pc = "unwrapped"]

\* decorator(func): a callable that is no coroutine function is rejected
\* with TypeError and no wrapper is returned; otherwise the wrapper is
\* returned and can be called.
decorator ==
    /\ \A c \in Callers : call[c].pc = "unwrapped"
    /\ call' = [c \in Callers |->
                  IF iscoroutinefunction(cfg.func) THEN IdleCall
                  ELSE [IdleCall EXCEPT !.pc = "rejected",
                                        !.ret = Raised("TypeError")]]
    /\ UNCHANGED <<cfg, store, ncalls, db>>

\* The decorator applied to a coroutine function and to a synchronous
\* function, without coordination over a reliable store.
WrapConfigs ==
    { [config EXCEPT !.func = f] :
        config \in Configs({0}, {<<>>}, {TRUE},
                           {<<{0}, {"noise"}>>}, {"up"}, {"bytes"}),
        f \in {"async_def", "def"} }

WrapInit ==
    /\ cfg \in WrapConfigs
    /\ store = << >>
    /\ call = [c \in Callers |-> Unwrapped]
    /\ ncalls = 0
    /\ db = NoRows

WrapNext ==
    \/ decorator
    \/ \E c \in Callers : \E input \in Inputs : Start(c, input)
    \/ \E c \in Callers : FirstGet(c)
    \/ \E c \in Callers : FuncReturn(c)
    \/ \E c \in Callers : Persist(c)

WrapSpec == WrapInit /\ [][WrapNext]_vars

\* ------------------------------------------------------- lock and data keys
\* Argument tuples of texts: one text, and that text followed by "lock".
TextInputs ==
    { [args |-> <<PyStr("u")>>, kwargs |-> <<>>],
      [args |-> <<PyStr("u"), PyStr("lock")>>, kwargs |-> <<>>] }

\* The wrapper with coordination over a reliable store, under both error
\* policies, with the default key serializer and with one of the caller's
\* that joins the arguments; no argument is ignored.
LockConfigs ==
    { [config EXCEPT !.keySerializer = ks] :
        config \in Configs({1}, {<<>>}, BOOLEAN, {<<{}, {}>>}, {"up"}, {"bytes"}),
        ks \in {"hash_key", "join"} }

LockInit == InitWith(LockConfigs)

\* Both callers call the wrapper; the second caller also reads through
\* has_valid_value and get_cached_timestamp.
LockNext ==
    \/ \E c \in Callers : \E input \in TextInputs : StartWithin(c, input, MaxOps)
    \/ \E c \in Callers : FirstGet(c)
    \/ \E c \in Callers : LoopGet(c)
    \/ \E c \in Callers : SetLock(c)
    \/ \E c \in Callers : Wake(c)
    \/ \E c \in Callers : FinalGet(c)
    \/ \E c \in Callers : FuncReturn(c)
    \/ \E c \in Callers : Persist(c)
    \/ \E c \in Callers : ReleaseFinally(c)
    \/ \E input \in TextInputs : has_valid_value(Controller, input)
    \/ \E input \in TextInputs : get_cached_timestamp(Controller, input)
    \/ Tick

LockSpec == LockInit /\ [][LockNext]_vars

\* ------------------------------------------------------ caller-owned inputs
\* Arguments that hold mappings whose keys are not in sorted order: bare,
\* inside a list, and as the value of a keyword argument; with the last of
\* them the computation returns None.
ArgInputs ==
    { [args |-> <<Dict(BA)>>, kwargs |-> <<>>],
      [args |-> <<List(<<Dict(BA)>>)>>,
       kwargs |-> << <<"flag", Dict(BA)>> >>],
      [args |-> <<Dict(AB)>>,
       kwargs |-> << <<"noise", Dict(BA)>>, <<"flag", PyInt(1)>> >>],
      [args |-> <<Dict(BA), PyInt(0)>>, kwargs |-> <<>>] }

\* The wrapper without coordination over a reliable store, ignoring no
\* argument and ignoring the first positional and the keyword "noise".
ArgConfigs ==
    Configs({0}, {<<>>}, {TRUE}, {<<{}, {}>>, <<{0}, {"noise"}>>},
            {"up"}, {"bytes"})

ArgInit == InitWith(ArgConfigs)

\* Both callers call the wrapper and ask cache_key_for; the second caller
\* also runs the other control operations.
ArgNext ==
    \/ \E c \in Callers : \E input \in ArgInputs : Start(c, input)
    \/ \E c \in Callers : FirstGet(c)
    \/ \E c \in Callers : FuncReturn(c)
    \/ \E c \in Callers : Persist(c)
    \/ \E c \in Callers : \E input \in ArgInputs : cache_key_for(c, input)
    \/ \E input \in ArgInputs : invalidate(Controller, input)
    \/ \E input \in ArgInputs : is_cached(Controller, input)
    \/ \E input \in ArgInputs : has_valid_value(Controller, input)
    \/ \E input \in ArgInputs : get_cached_timestamp(Controller, input)

ArgSpec == ArgInit /\ [][ArgNext]_vars

\* ------------------------------------------------------------ chat service
\* The users and the conversation ids that calls name.
Users == {1, 2}
ConversationIds == {1, 2}

\* ttl=300 of both cached listings, in seconds.
ChatTtlSeconds == 300

\* The db: AsyncSession argument, ignored in the key (ignore_positionals=[0]).
Session == PyStr("db")

\* namespace= of get_user_conversations and of get_conversation_messages.
UserConversations == <<"chat.user_conversations">>
ConversationMessages == <<"chat.conversation_messages">>

\* The arguments of get_user_conversations(db, user_id) and of
\* get_conversation_messages(db, conversation_id, user_id).
ListArgs(user_id) == [args |-> <<Session, PyInt(user_id)>>, kwargs |-> <<>>]

MessagesArgs(conversation_id, user_id) ==
    [args |-> <<Session, PyInt(conversation_id), PyInt(user_id)>>,
     kwargs |-> <<>>]

\* A database with one conversation of user 1 and no message.
OneConversation ==
    [conversations |-> <<[id |-> 1, user_id |-> 1, updated_at |-> 1]>>,
     messages |-> <<>>, commits |-> 1]

\* A row is inserted with a fresh id: the number of the commit.
FreshId == db.commits + 1

\* select(Conversation).where(user_id == user_id).order_by(desc(updated_at)),
\* as a list of (id, updated_at).
conversations_of(rows, user_id) ==
    LET found == SelectSeq(rows.conversations, LAMBDA r : r.user_id = user_id)
    IN List([i \in 1..Len(found) |->
                Tuple(<<PyInt(found[i].id), PyInt(found[i].updated_at)>>)])

\* select(Message).where(conversation_id == conversation_id)
\* .order_by(created_at), as a list of message ids.
messages_of(rows, conversation_id) ==
    LET found == SelectSeq(rows.messages,
                           LAMBDA r : r.conversation_id = conversation_id)
    IN List([i \in 1..Len(found) |-> PyInt(found[i].id)])

Exists(rows, conversation_id) ==
    \E i \in 1..Len(rows.conversations) :
        rows.conversations[i].id = conversation_id

\* get_conversation_by_id: "found", or the status it raises.
get_conversation_by_id(rows, conversation_id, user_id) ==
    IF ~Exists(rows, conversation_id) THEN "404"
    ELSE IF \E i \in 1..Len(rows.conversations) :
               /\ rows.conversations[i].id = conversation_id
               /\ rows.conversations[i].user_id # user_id
    THEN "403"
    ELSE "found"

\* Ids are random UUIDs: a call names an id that has been issued, never one
\* that a later insert will get.
Issued(conversation_id) == conversation_id <= db.commits

\* The user and the conversation a call of the chat service names.
user_id_of(rec) == rec.passed.args[Len(rec.passed.args)].num
conversation_id_of(rec) == rec.passed.args[2].num

\* The wrapper of a cached listing is called.
ChatCall(op, namespace, input) ==
    [IdleCall EXCEPT !.pc = "first_get", !.op = op,
                     !.input = caller_objects_after(input),
                     !.passed = input,
                     !.cache_key = build_cache_key_under(namespace, input),
                     !.id = ncalls + 1]

\* A mutation begins; its cache key is the key it invalidates at its end.
Mutation(op, namespace, input) ==
    [ChatCall(op, namespace, input) EXCEPT !.pc = "invalidate"]

get_user_conversations(c, user_id) ==
    /\ CanBegin(c)
    /\ ncalls' = ncalls + 1
    /\ call' = [call EXCEPT ![c] =
                  ChatCall("get_user_conversations", UserConversations,
                           ListArgs(user_id))]
    /\ UNCHANGED <<cfg, store, db>>

\* The body of get_user_conversations: one select.
SelectConversations(c) ==
    /\ call[c].pc = "func"
    /\ call[c].op = "get_user_conversations"
    /\ call' = [call EXCEPT ![c] =
                  Returning(@, <<conversations_of(db, user_id_of(@))>>)]
    /\ UNCHANGED <<cfg, store, ncalls, db>>

get_conversation_messages(c, conversation_id, user_id) ==
    /\ CanBegin(c)
    /\ Issued(conversation_id)
    /\ ncalls' = ncalls + 1
    /\ call' = [call EXCEPT ![c] =
                  [ChatCall("get_conversation_messages", ConversationMessages,
                            MessagesArgs(conversation_id, user_id))
                   EXCEPT !.existed = Exists(db, conversation_id)]]
    /\ UNCHANGED <<cfg, store, db>>

\* The body of get_conversation_messages: get_conversation_by_id, which
\* raises 404 or 403, then the select of the messages.
LookupConversation(c) ==
    /\ call[c].pc = "func"
    /\ call[c].op = "get_conversation_messages"
    /\ LET status == get_conversation_by_id(db, conversation_id_of(call[c]),
                                            user_id_of(call[c]))
       IN call' = [call EXCEPT ![c] =
                     IF status = "found" THEN [@ EXCEPT !.pc = "select"]
                     ELSE ThroughRelease(@, "release_raise", Raised(status))]
    /\ UNCHANGED <<cfg, store, ncalls, db>>

SelectMessages(c) ==
    /\ call[c].pc = "select"
    /\ call' = [call EXCEPT ![c] =
                  Returning(@, <<messages_of(db, conversation_id_of(@))>>)]
    /\ UNCHANGED <<cfg, store, ncalls, db>>

\* db.add(new_conversation); await db.commit()
create_conversation(c, user_id) ==
    /\ CanBegin(c)
    /\ ncalls' = ncalls + 1
    /\ db' = [db EXCEPT
                !.conversations =
                    <<[id |-> FreshId, user_id |-> user_id,
                       updated_at |-> FreshId]>> \o @,
                !.commits = FreshId]
    /\ call' = [call EXCEPT ![c] =
                  [Mutation("create_conversation", UserConversations,
                            ListArgs(user_id))
                   EXCEPT !.committed = FreshId, !.wrote = {FreshId},
                          !.result = <<PyInt(FreshId)>>]]
    /\ UNCHANGED <<cfg, store>>

\* The conversations without the one of the given id.
Without(conversations, conversation_id) ==
    SelectSeq(conversations, LAMBDA r : r.id # conversation_id)

\* A mutation of one conversation: get_conversation_by_id raises, or the
\* session commits the change.
MutateConversation(c, op, conversation_id, user_id, rows) ==
    /\ CanBegin(c)
    /\ Issued(conversation_id)
    /\ ncalls' = ncalls + 1
    /\ LET status == get_conversation_by_id(db, conversation_id, user_id)
           rec == Mutation(op, UserConversations, ListArgs(user_id))
       IN IF status = "found"
          THEN /\ db' = rows
               /\ call' = [call EXCEPT ![c] =
                             [rec EXCEPT !.committed = FreshId]]
          ELSE /\ call' = [call EXCEPT ![c] = Complete(rec, Raised(status))]
               /\ UNCHANGED db
    /\ UNCHANGED <<cfg, store>>

\* conversation.title = ...; await db.commit(): updated_at changes and the
\* conversation becomes the first of the listing.
update_conversation(c, conversation_id, user_id) ==
    MutateConversation(c, "update_conversation", conversation_id, user_id,
        [db EXCEPT
            !.conversations =
                <<[id |-> conversation_id, user_id |-> user_id,
                   updated_at |-> FreshId]>> \o Without(@, conversation_id),
            !.commits = FreshId])

\* await db.delete(conversation); await db.commit(): the messages of the
\* conversation go with it (ondelete="CASCADE").
delete_conversation(c, conversation_id, user_id) ==
    MutateConversation(c, "delete_conversation", conversation_id, user_id,
        [db EXCEPT
            !.conversations = Without(@, conversation_id),
            !.messages =
                SelectSeq(@, LAMBDA r : r.conversation_id # conversation_id),
            !.commits = FreshId])

\* create_message up to the commit of the user message.
create_message(c, conversation_id, user_id) ==
    /\ CanBegin(c)
    /\ Issued(conversation_id)
    /\ ncalls' = ncalls + 1
    /\ LET status == get_conversation_by_id(db, conversation_id, user_id)
           rec == Mutation("create_message", ConversationMessages,
                           MessagesArgs(conversation_id, user_id))
       IN IF status = "found"
          THEN /\ db' = [db EXCEPT
                           !.messages = Append(@,
                               [id |-> FreshId,
                                conversation_id |-> conversation_id,
                                role |-> "user"]),
                           !.commits = FreshId]
               /\ call' = [call EXCEPT ![c] =
                             [rec EXCEPT !.pc = "history_get",
                                         !.committed = FreshId,
                                         !.wrote = {FreshId}]]
          ELSE /\ call' = [call EXCEPT ![c] = Complete(rec, Raised(status))]
               /\ UNCHANGED db
    /\ UNCHANGED <<cfg, store>>

\* messages_history = await get_conversation_messages(...): the first cache
\* check of the wrapper; an error leaves create_message.  The history is
\* kept in `result` up to the request to the AI service.
HistoryGet(c) ==
    /\ call[c].pc = "history_get"
    /\ \E ok \in StoreOutcomes :
         LET answer == resolve_cached_value(cache_key_of(c), ok)
         IN call' = [call EXCEPT ![c] =
                       IF answer.tag = "raise" THEN Complete(@, answer)
                       ELSE IF answer.v # NoneVal
                       THEN [@ EXCEPT !.pc = "reply", !.result = answer.v]
                       ELSE [@ EXCEPT !.pc = "history_lookup",
                                      !.invoked = TRUE]]
    /\ UNCHANGED <<cfg, store, ncalls, db>>

HistoryLookup(c) ==
    /\ call[c].pc = "history_lookup"
    /\ LET status == get_conversation_by_id(db, conversation_id_of(call[c]),
                                            user_id_of(call[c]))
       IN call' = [call EXCEPT ![c] =
                     IF status = "found" THEN [@ EXCEPT !.pc = "history_select"]
                     ELSE Complete(@, Raised(status))]
    /\ UNCHANGED <<cfg, store, ncalls, db>>

HistorySelect(c) ==
    /\ call[c].pc = "history_select"
    /\ call' = [call EXCEPT ![c] =
                  [@ EXCEPT
                     !.result = <<messages_of(db, conversation_id_of(call[c]))>>,
                     !.pc = IF SkipsPersist \/ cfg.serializer # "bytes"
                            THEN "reply" ELSE "history_persist"]]
    /\ UNCHANGED <<cfg, store, ncalls, db>>

\* The set of the wrapper inside create_message.
HistoryPersist(c) ==
    /\ call[c].pc = "history_persist"
    /\ \E ok \in StoreOutcomes :
         IF ok
         THEN /\ store' = Put(store, cache_key_of(c),
                              Blob(cache_payload(call[c]), cfg.ttl, call[c]))
              /\ call' = [call EXCEPT ![c] = [@ EXCEPT !.pc = "reply"]]
         ELSE /\ call' = [call EXCEPT ![c] =
                            IF cfg.ignoreErr THEN [@ EXCEPT !.pc = "reply"]
                            ELSE Complete(@, Raised("store"))]
              /\ UNCHANGED store
    /\ UNCHANGED <<cfg, ncalls, db>>

\* generate_response raises (the message is not answered and the cache is
\* not invalidated), or returns and the assistant message is committed.
ReplyFails(c) ==
    /\ call[c].pc = "reply"
    /\ call' = [call EXCEPT ![c] = Complete(@, Raised("502"))]
    /\ UNCHANGED <<cfg, store, ncalls, db>>

Reply(c) ==
    /\ call[c].pc = "reply"
    /\ db' = [db EXCEPT
                !.messages = Append(@,
                    [id |-> FreshId,
                     conversation_id |-> conversation_id_of(call[c]),
                     role |-> "assistant"]),
                !.commits = FreshId]
    /\ call' = [call EXCEPT ![c] =
                  [@ EXCEPT !.pc = "invalidate", !.committed = FreshId,
                            !.wrote = @ \cup {FreshId},
                            !.result = <<Tuple(<<PyInt(FreshId)>>)>>]]
    /\ UNCHANGED <<cfg, store, ncalls>>

\* await <listing>.invalidate(...) at the end of a mutation, then return.
InvalidateListing(c) ==
    /\ call[c].pc = "invalidate"
    /\ \E ok \in StoreOutcomes :
         IF ok
         THEN /\ store' = Del(store, cache_key_of(c))
              /\ call' = [call EXCEPT ![c] = Complete(@, Returned(@.result))]
         ELSE /\ call' = [call EXCEPT ![c] =
                            IF cfg.ignoreErr THEN Complete(@, Returned(@.result))
                            ELSE Complete(@, Raised("store"))]
              /\ UNCHANGED store
    /\ UNCHANGED <<cfg, ncalls, db>>

\* Both listings as chat.py decorates them: no coordination, a ttl of 300
\* seconds, the session ignored, errors swallowed, over a reliable store.
ChatConfigs ==
    { [config EXCEPT !.namespace = UserConversations] :
        config \in Configs({0}, {<<ChatTtlSeconds * TicksPerSecond>>}, {TRUE},
                           {<<{0}, {}>>}, {"up"}, {"bytes"}) }

ChatInit ==
    /\ cfg \in ChatConfigs
    /\ store = << >>
    /\ call = [c \in Callers |-> IdleCall]
    /\ ncalls = 0
    /\ db \in {NoRows, OneConversation}

\* Up to MaxOps calls of the chat service by two requests at a time; no
\* time passes (the entries live far longer than the calls take).
ChatNext ==
    \/ \E c \in Callers : \E u \in Users : get_user_conversations(c, u)
    \/ \E c \in Callers : \E k \in ConversationIds : \E u \in Users :
           get_conversation_messages(c, k, u)
    \/ \E c \in Callers : FirstGet(c)
    \/ \E c \in Callers : SelectConversations(c)
    \/ \E c \in Callers : LookupConversation(c)
    \/ \E c \in Callers : SelectMessages(c)
    \/ \E c \in Callers : Persist(c)
    \/ \E c \in Callers : \E u \in Users : create_conversation(c, u)
    \/ \E c \in Callers : \E k \in ConversationIds : \E u \in Users :
           update_conversation(c, k, u)
    \/ \E c \in Callers : \E k \in ConversationIds : \E u \in Users :
           delete_conversation(c, k, u)
    \/ \E c \in Callers : \E k \in ConversationIds : \E u \in Users :
           create_message(c, k, u)
    \/ \E c \in Callers : HistoryGet(c)
    \/ \E c \in Callers : HistoryLookup(c)
    \/ \E c \in Callers : HistorySelect(c)
    \/ \E c \in Callers : HistoryPersist(c)
    \/ \E c \in Callers : ReplyFails(c)
    \/ \E c \in Callers : Reply(c)
    \/ \E c \in Callers : InvalidateListing(c)

ChatSpec == ChatInit /\ [][ChatNext]_vars

\* -------------------------------------------------------- no coordination
\* The wrapper with a negative wait ceiling, with the default of zero and
\* with a ceiling of one tick, over a reliable store.
PlainConfigs ==
    Configs({-1, 0, 1}, {<<>>}, {TRUE}, {<<{0}, {"noise"}>>}, {"up"}, {"bytes"})

PlainInit == InitWith(PlainConfigs)

PlainNext == NextWith(Inputs)

PlainSpec == PlainInit /\ [][PlainNext]_vars

\* ----------------------------------------------- neighbouring namespaces
\* The wrapper without coordination over a reliable store, under the
\* default prefix, decorated with each namespace of Namespaces.
NsConfigs ==
    Under(Configs({0}, {<<>>}, {TRUE}, {<<{0}, {"noise"}>>}, {"up"}, {"bytes"}),
          {"rc"}, Namespaces)

NsInit == InitWith(NsConfigs)

\* A computation decorated with another namespace under the same prefix is
\* called and stores its entry.
OtherWrites(namespace, input) ==
    /\ namespace # cfg.namespace
    /\ ~Has(build_cache_key_under(namespace, input))
    /\ store' = Put(store, build_cache_key_under(namespace, input),
                    Blob(cache_payload([result |-> Func(input), input |-> input]),
                         cfg.ttl, [id |-> 0, input |-> input]))
    /\ UNCHANGED <<cfg, call, ncalls, db>>

\* Calls of the wrapper and of its neighbours, and invalidate_all.
NsNext ==
    \/ \E c \in Callers : \E input \in OneInput : Start(c, input)
    \/ \E c \in Callers : FirstGet(c)
    \/ \E c \in Callers : FuncReturn(c)
    \/ \E c \in Callers : Persist(c)
    \/ \E ns \in Namespaces : \E input \in ApiInputs : OtherWrites(ns, input)
    \/ invalidate_all(Controller)
    \/ Scan(Controller)
    \/ DeleteBatch(Controller)
    \/ DeleteRest(Controller)

NsSpec == NsInit /\ [][NsNext]_vars

\* ---------------------------------------------------- refresh sessions
\* settings.REFRESH_TOKEN_EXPIRE_DAYS
RefreshTokenExpireDays == 7

\* _ttl_seconds()
ttl_seconds == RefreshTokenExpireDays * 24 * 60 * 60

\* _hash_token: the SHA-256 digest of the token, modelled by the text it is
\* computed from (taken as collision free).
hash_token(token) == <<"sha256(", ToString(token), ")">>

\* _session_key: f"auth:session:{hashed}"
session_key(hashed) == <<Text("auth"), Text("session"), hashed>>

\* The refresh cookie a request presents; a token is the number of the
\* request that created its session (secrets.token_urlsafe is fresh).
Cookie(token) == [args |-> <<PyInt(token)>>, kwargs |-> <<>>]

token_of(rec) == rec.passed.args[1].num

\* The token is one a client can hold: the request that makes it has ended.
HandedOut(token) ==
    /\ token <= ncalls
    /\ \A d \in Callers : call[d].id = token => call[d].pc = "done"

\* A request to /auth/login, /auth/refresh or /auth/logout arrives.
Request(op, pc, cookie) ==
    [IdleCall EXCEPT !.op = op, !.pc = pc, !.input = cookie, !.passed = cookie,
                     !.id = ncalls + 1]

\* login, for a user with the right password: a session is created.
login(c) ==
    /\ CanBegin(c)
    /\ ncalls' = ncalls + 1
    /\ call' = [call EXCEPT ![c] = Request("login", "create_session", NoInput)]
    /\ UNCHANGED <<cfg, store, db>>

\* refresh with a refresh cookie that some login or refresh handed out.
refresh(c, token) ==
    /\ CanBegin(c)
    /\ HandedOut(token)
    /\ ncalls' = ncalls + 1
    /\ call' = [call EXCEPT ![c] =
                  Request("refresh", "get_session", Cookie(token))]
    /\ UNCHANGED <<cfg, store, db>>

\* logout of an authenticated user with a refresh cookie.
logout(c, token) ==
    /\ CanBegin(c)
    /\ HandedOut(token)
    /\ ncalls' = ncalls + 1
    /\ call' = [call EXCEPT ![c] =
                  Request("logout", "delete_session", Cookie(token))]
    /\ UNCHANGED <<cfg, store, db>>

\* session = await get_session(refresh_cookie): an error of the get leaves
\* the request, no session is a 401; the user of the session exists.
get_session(c) ==
    /\ call[c].pc = "get_session"
    /\ \E ok \in StoreOutcomes :
         LET key == session_key(hash_token(token_of(call[c])))
         IN call' = [call EXCEPT ![c] =
                       IF ~ok
                       THEN Complete([@ EXCEPT !.failed = TRUE], Raised("store"))
                       ELSE IF ~Has(key) \/ store[key].val.kind # "session"
                       THEN Complete(@, Raised("401"))
                       ELSE [@ EXCEPT !.pc = "delete_session"]]
    /\ UNCHANGED <<cfg, store, ncalls, db>>

\* What follows delete_session when client.delete raised: the error is
\* swallowed (except Exception: pass).
delete_session_failed(rec) ==
    IF rec.op = "logout"
    THEN Complete([rec EXCEPT !.failed = TRUE],
                  Returned(<<"Successfully logged out">>))
    ELSE [rec EXCEPT !.failed = TRUE, !.pc = "create_session"]

\* await delete_session(token), of logout and of replace_session.
delete_session(c) ==
    /\ call[c].pc = "delete_session"
    /\ \E ok \in StoreOutcomes :
         IF ok
         THEN /\ store' = Del(store, session_key(hash_token(token_of(call[c]))))
              /\ call' = [call EXCEPT ![c] =
                            IF @.op = "logout"
                            THEN Complete(@, Returned(<<"Successfully logged out">>))
                            ELSE [@ EXCEPT !.pc = "create_session"]]
         ELSE /\ call' = [call EXCEPT ![c] = delete_session_failed(@)]
              /\ UNCHANGED store
    /\ UNCHANGED <<cfg, ncalls, db>>

\* await create_session(user_id): a fresh token, its session set with the
\* time to live of refresh tokens; the token is returned in the cookie.
create_session(c) ==
    /\ call[c].pc = "create_session"
    /\ \E ok \in StoreOutcomes :
         IF ok
         THEN /\ store' = Put(store, session_key(hash_token(call[c].id)),
                              Blob([kind |-> "session", user_id |-> 1],
                                   <<ttl_seconds * TicksPerSecond>>, call[c]))
              /\ call' = [call EXCEPT ![c] =
                            Complete([@ EXCEPT !.wrote = {call[c].id}],
                                     Returned(<<PyInt(call[c].id)>>))]
         ELSE /\ call' = [call EXCEPT ![c] =
                            Complete([@ EXCEPT !.failed = TRUE], Raised("store"))]
              /\ UNCHANGED store
    /\ UNCHANGED <<cfg, ncalls, db>>

\* The session store reliable, and with commands that may fail.
AuthConfigs ==
    Configs({0}, {<<>>}, {TRUE}, {<<{}, {}>>}, {"up", "flaky"}, {"bytes"})

AuthInit == InitWith(AuthConfigs)

\* Up to MaxOps requests, two at a time; no time passes (sessions live for
\* days).
AuthNext ==
    \/ \E c \in Callers : login(c)
    \/ \E c \in Callers : \E token \in 1..MaxOps : refresh(c, token)
    \/ \E c \in Callers : \E token \in 1..MaxOps : logout(c, token)
    \/ \E c \in Callers : get_session(c)
    \/ \E c \in Callers : delete_session(c)
    \/ \E c \in Callers : create_session(c)

AuthSpec == AuthInit /\ [][AuthNext]_vars

\* The wrapper under fair scheduling: time passes, and every call that can
\* take a step of the wrapper eventually takes one (the computation and the
\* store commands terminate).  The store may fail any command, and a holder
\* may crash or be cancelled at any time.
LiveConfigs ==
    Configs({MaxWaitTicks}, {<<>>, <<0>>}, {TRUE},
            {<<{0}, {"noise"}>>}, {"flaky"}, {"bytes"})

LiveInit == InitWith(LiveConfigs)

FairSpec ==
    /\ LiveInit
    /\ [][FaultNext]_vars
    /\ WF_vars(Tick)
    /\ \A c \in Callers : WF_vars(Progress(c))

\* ------------------------------------------------------------------ claims
SameKey(c, d) ==
    /\ call[c].pc # "idle"
    /\ call[d].pc # "idle"
    /\ cache_key_of(c) = cache_key_of(d)

Computing(c) == call[c].pc = "func"

\* The call holds the lock and the lock key it set is still in the store.
HoldsLiveLock(c) ==
    call[c].pc \in InFlight /\ call[c].have_lock /\ ~call[c].lock_lost

\* C1: with maxWait > 0, when the callers call concurrently with identical
\* arguments on an uncached key (each first check meets no key) and the
\* computation ends before any deadline and before the lock expires, the
\* computation is invoked exactly once and every caller returns the same
\* result.  Stated for a decorator that persists results (ttl is None or
\* positive) and a computation that returns a value other than None.
C1_SharedComputation ==
    ( /\ cfg.maxWait > 0
      /\ ~SkipsPersist
      /\ \A c \in Callers :
            /\ call[c].pc = "done"
            /\ call[c].ret.tag = "return"
            /\ call[c].first = "absent"
            /\ ~call[c].timed_out
            /\ ~call[c].lock_lost
            /\ Func(call[c].input) # NoneVal
      /\ \A c, d \in Callers : call[c].input = call[d].input )
    => /\ Cardinality({c \in Callers : call[c].invoked}) = 1
       /\ \A c, d \in Callers : call[c].ret = call[d].ret

\* C2: with maxWait > 0, at most one invocation of the computation per cache
\* key is in flight at any moment.
C2_OneInFlight ==
    cfg.maxWait > 0 =>
        \A c, d \in Callers :
            (c # d /\ SameKey(c, d)) => ~(Computing(c) /\ Computing(d))

\* C2 as amended: with maxWait > 0, a caller computes without the lock only
\* after its deadline elapsed, and two invocations for one key are in flight
\* together only if one of the two callers timed out or lost its lock key
\* (expired, or deleted by another holder's release).
C2_OneInFlightUnlessTimedOut ==
    cfg.maxWait > 0 =>
        /\ \A c \in Callers :
              Computing(c) => (call[c].have_lock \/ call[c].timed_out)
        /\ \A c, d \in Callers :
              (c # d /\ SameKey(c, d) /\ Computing(c) /\ Computing(d)) =>
                  \E x \in {c, d} : call[x].timed_out \/ call[x].lock_lost

\* One caller computes under the lock while the other polls behind it.
C2_Witness ==
    \E c, d \in Callers :
        /\ c # d /\ SameKey(c, d)
        /\ Computing(c) /\ HoldsLiveLock(c)
        /\ call[d].pc = "sleep"

\* C3: for every cache key at most one in-progress call has have_lock true.
C3_OneHolder ==
    \A c, d \in Callers :
        (c # d /\ SameKey(c, d) /\ call[c].pc \in InFlight /\ call[d].pc \in InFlight)
            => ~(call[c].have_lock /\ call[d].have_lock)

\* C3 as amended: for every cache key at most one in-progress call holds a
\* lock key that is still in the store as that call set it; have_lock stays
\* true for a call whose lock key expired or was deleted by another call.
C3_OneLiveHolder ==
    \A c, d \in Callers :
        (c # d /\ SameKey(c, d)) => ~(HoldsLiveLock(c) /\ HoldsLiveLock(d))

\* The lock key of one holder expired and the other caller acquired it.
C3_Witness ==
    \E c, d \in Callers :
        /\ c # d /\ SameKey(c, d)
        /\ call[c].pc \in InFlight /\ call[c].have_lock /\ call[c].lock_lost
        /\ HoldsLiveLock(d)

\* C4: with maxWait > 0, a caller without the lock invokes the computation
\* only after its deadline elapsed and no re-check of the call met a valid
\* entry; a call whose re-check (in the poll loop or the final one) meets a
\* valid entry returns that entry's value and does not invoke the computation.
C4_WaitersHonourCache ==
    cfg.maxWait > 0 =>
        \A c \in Callers :
            /\ (call[c].invoked /\ ~call[c].have_lock) =>
                    (call[c].timed_out /\ call[c].refound = <<>>)
            /\ call[c].refound # <<>> =>
                    /\ call[c].pc = "done"
                    /\ ~call[c].invoked
                    /\ call[c].ret = Returned(call[c].refound[1].value)

\* The lock keys in the store, and whether the call that set one still runs.
LockKeys == {k \in DOMAIN store : store[k].val.kind = "marker"}
HolderRuns(k) ==
    \E c \in Callers : call[c].pc \in InFlight /\ call[c].id = store[k].by

\* C7: a lock key is never present for more than maxWait after the
\* computation it guards has ended.  Stated for the moment the holder's call
\* is over (returned, raised, cancelled or crashed): a lock key that is still
\* in the store then has at most maxWait left to live.
C7_LockOutlivesByMaxWait ==
    \A k \in LockKeys :
        ~HolderRuns(k) =>
            (store[k].ttl # <<>> /\ store[k].ttl[1] <= cfg.maxWait)

\* max(ceil(maxWait), 1) seconds in ticks, written without lock_ttl.
CeilSeconds ==
    CHOOSE n \in 1..(cfg.maxWait + 1) :
        /\ n * TicksPerSecond >= cfg.maxWait
        /\ (n = 1 \/ (n - 1) * TicksPerSecond < cfg.maxWait)

\* C7 as amended: every lock key carries a time to live, and once the
\* computation it guards has ended (or at any other time) it has at most
\* max(ceil(maxWait), 1) seconds left to live.
C7_LockOutlivesByLockTtl ==
    \A k \in LockKeys :
        store[k].ttl # <<>> /\ store[k].ttl[1] <= CeilSeconds * TicksPerSecond

\* The holder's call ended without a release (cancelled or crashed) and its
\* lock key is left with more than maxWait to live.
C7_Witness ==
    \E k \in LockKeys :
        /\ \E c \in Callers :
              call[c].id = store[k].by /\ call[c].pc \in {"cancelled", "crashed"}
        /\ store[k].ttl[1] > cfg.maxWait

\* C8: when the wrapped computation raises, the call ends with that error,
\* has written no entry, and has passed through the release of a lock it
\* held before the error reaches the caller: the delete was issued and,
\* where the delete command did not itself fail, the lock key the call set is
\* gone.  A later call with the same arguments that meets no valid entry
\* invokes the computation again.
FailedCall(c) == call[c].pc = "done" /\ call[c].ret = Raised("func")

C9_SecondCallServed ==
    \A c \in Callers :
        /\ (call[c].first = "valid" /\ call[c].found[1].of = call[c].input) =>
              /\ call[c].pc = "done"
              /\ ~call[c].invoked
              /\ call[c].ret = Returned(Func(call[c].input))
        /\ ( /\ call[c].pc = "done" /\ call[c].ret.tag = "return"
             /\ call[c].found = <<>> /\ call[c].refound = <<>> )
           => call[c].invoked

\* The arguments the key derivation function receives for an input.
KeyArguments(input) == normalize_parameters(input.args, input.kwargs)

\* Two inputs differ only in ignored positional indices or keyword names.
DifferOnlyInIgnored(i, j) ==
    /\ i # j
    /\ Len(i.args) = Len(j.args)
    /\ \A n \in 1..Len(i.args) :
          (n - 1) \notin cfg.ignorePos => i.args[n] = j.args[n]
    /\ {p \in {i.kwargs[n] : n \in 1..Len(i.kwargs)} : p[1] \notin cfg.ignoreKw}
       = {p \in {j.kwargs[n] : n \in 1..Len(j.kwargs)} : p[1] \notin cfg.ignoreKw}

\* C10: calls that differ only in ignored arguments derive the same key, the
\* key derivation function receives no ignored argument, and the second of
\* two such calls is served the first one's entry without invoking the
\* computation.
C10_IgnoredArgumentsShare ==
    /\ \A i, j \in Inputs :
          DifferOnlyInIgnored(i, j) => build_cache_key(i) = build_cache_key(j)
    /\ \A i \in Inputs :
          /\ Len(KeyArguments(i).args)
               = Cardinality({n \in 1..Len(i.args) : (n - 1) \notin cfg.ignorePos})
          /\ \A n \in 1..Len(KeyArguments(i).kwargs) :
                KeyArguments(i).kwargs[n][1] \notin cfg.ignoreKw
    /\ \A c \in Callers :
          (call[c].first = "valid" /\ DifferOnlyInIgnored(call[c].found[1].of, call[c].input))
              => /\ call[c].pc = "done"
                 /\ ~call[c].invoked
                 /\ call[c].ret = Returned(call[c].found[1].value)

\* C5: every call of the wrapper eventually returns, raises or dies, and a
\* caller starts a poll iteration only while its deadline has not elapsed.
C5_EveryCallEnds ==
    /\ \A c \in Callers :
          (call[c].pc \in InFlight) ~> (call[c].pc \in Ended)
    /\ [][\A c \in Callers :
            (call[c].pc = "sleep" /\ call'[c].pc = "loop_get")
                => call[c].deadline > 0]_vars

\* A caller polls behind the lock key of a holder that crashed.
C5_Witness ==
    \E c, d \in Callers :
        /\ call[d].pc = "crashed"
        /\ Has(lock_key(cache_key_of(d)))
        /\ SameKey(c, d)
        /\ call[c].pc = "sleep"

\* C6: a caller that acquired the lock has deleted the lock key when its
\* call completes, on every exit path.
C6_LockDeletedOnExit ==
    \A c \in Callers :
        (call[c].pc = "done" /\ call[c].have_lock) =>
            \A k \in LockKeys : store[k].by # call[c].id

\* C6 as amended: a caller that acquired the lock has issued the delete of
\* the lock key when its call completes, on every exit path (entry stored,
\* ttl <= 0, computation raised, serializer or set failed under either
\* policy); unless that delete itself failed, the key it set is gone.
C6_ReleaseIssuedOnExit ==
    \A c \in Callers :
        (call[c].pc = "done" /\ call[c].have_lock) =>
            /\ call[c].release \in {"deleted", "failed"}
            /\ call[c].release = "deleted" =>
                  \A k \in LockKeys : store[k].by # call[c].id

\* A lock holder's call ended by re-raising the serializer's failure, after
\* deleting the lock key.
C6_Witness ==
    \E c \in Callers :
        /\ call[c].pc = "done" /\ call[c].have_lock
        /\ call[c].ret = Raised("serializer")
        /\ call[c].release = "deleted"

\* Two values are alike when they differ at most in the insertion order of
\* the mappings whose type is in `unordered`, at any depth.
RECURSIVE Alike(_, _, _)
Alike(v, w, unordered) ==
    /\ v.kind = w.kind
    /\ v.num = w.num
    /\ Len(v.parts) = Len(w.parts)
    /\ CASE v.kind \in {"list", "tuple"} ->
              \A i \in 1..Len(v.parts) : Alike(v.parts[i], w.parts[i], unordered)
         [] v.kind \in unordered ->
              \A i \in 1..Len(v.parts) : \E j \in 1..Len(w.parts) :
                  /\ v.parts[i][1] = w.parts[j][1]
                  /\ Alike(v.parts[i][2], w.parts[j][2], unordered)
         [] v.kind \in {"dict", "OrderedDict"} ->
              \A i \in 1..Len(v.parts) :
                  /\ v.parts[i][1] = w.parts[i][1]
                  /\ Alike(v.parts[i][2], w.parts[i][2], unordered)
         [] OTHER -> TRUE

\* The same for two calls' arguments; the keyword arguments are a dict.
InputsAlike(i, j, unordered) ==
    /\ Alike(Tuple(i.args), Tuple(j.args), unordered)
    /\ Alike(Dict(i.kwargs), Dict(j.kwargs), unordered \cup {"dict"})

\* cache_key_for has returned to the caller: the call's outcome is its key.
KeyReturned(c) ==
    /\ call[c].pc = "done"
    /\ call[c].ret.tag = "return"
    /\ call[c].first = "pending"

\* C11: two calls derive the same key whenever their arguments differ only
\* in the insertion order of mappings of any mapping type (dict and
\* OrderedDict) at any depth, and different keys when they differ otherwise,
\* as in the element order of a sequence.
C11_EveryMappingOrderIgnored ==
    \A c, d \in Callers :
        (KeyReturned(c) /\ KeyReturned(d)) =>
            ( InputsAlike(call[c].input, call[d].input, {"dict", "OrderedDict"})
              <=> call[c].ret = call[d].ret )

\* C11 as amended: two calls derive the same key exactly when their
\* arguments differ only in the insertion order of dicts that are no
\* OrderedDict, at any depth (inside lists, tuples, dicts and OrderedDicts);
\* the insertion order of an OrderedDict and the element order of a sequence
\* give different keys.
C11_DictOrderIgnored ==
    \A c, d \in Callers :
        (KeyReturned(c) /\ KeyReturned(d)) =>
            ( InputsAlike(call[c].input, call[d].input, {"dict"})
              <=> call[c].ret = call[d].ret )

\* Two calls whose arguments hold, inside a list, the same dict in different
\* insertion orders have derived one key.
C11_Witness ==
    \E c, d \in Callers :
        /\ KeyReturned(c) /\ KeyReturned(d)
        /\ call[c].input.args = <<List(<<Dict(AB)>>)>>
        /\ call[d].input.args = <<List(<<Dict(BA)>>)>>
        /\ call[c].ret = call[d].ret

\* The keys the store holds that are no lock keys.
DataKeys == (DOMAIN store) \ LockKeys

\* prefix:namespace:digest in segments, the prefix left out when it is empty.
KeyForm(k) ==
    LET ns == resolved_namespace(cfg.namespace)
        head == IF cfg.prefix = "" THEN <<>> ELSE <<Text(cfg.prefix)>>
    IN /\ Len(k) = Len(head) + Len(ns) + 1
       /\ SubSeq(k, 1, Len(head)) = head
       /\ \A i \in 1..Len(ns) : k[Len(head) + i] = Text(ns[i])
       /\ \E input \in KeyInputs \cup OneInput :
             k[Len(k)] = hash_key(KeyArguments(input).args,
                                  KeyArguments(input).kwargs)

\* The keys a wrapped computation with another namespace, under the same
\* prefix, derives for any arguments.
KeysOfOtherNamespaces ==
    { build_cache_key_under(ns, input) :
        ns \in {n \in Namespaces :
                  resolved_namespace(n) # resolved_namespace(cfg.namespace)},
        input \in KeyInputs \cup OneInput }

PositiveTtl == cfg.ttl # <<>> /\ cfg.ttl[1] > 0

\* C13: with a positive ttl, an entry is in the store for the ttl and no
\* longer; a call whose first check meets the entry, which is a call made
\* before the ttl has elapsed, returns its value and does not invoke the
\* computation, and a call that meets no entry invokes the computation.
C13_ServedUntilExpiry ==
    PositiveTtl =>
        /\ \A k \in DataKeys :
              store[k].ttl # <<>> /\ store[k].ttl[1] \in 1..cfg.ttl[1]
        /\ \A c \in Callers :
              call[c].first = "valid" =>
                  /\ call[c].pc = "done"
                  /\ ~call[c].invoked
                  /\ call[c].ret = Returned(call[c].found[1].value)
        /\ \A c \in Callers :
              ( /\ call[c].pc = "done" /\ call[c].ret.tag = "return"
                /\ call[c].first = "absent" /\ call[c].refound = <<>> )
              => call[c].invoked

\* The decorator is built with ttl <= 0.
NonPositiveTtl == cfg.ttl # <<>> /\ ~(cfg.ttl[1] > 0)

\* C14: with ttl <= 0 the store never holds a data key, and every call that
\* returns has invoked the computation and returns its fresh result.
C14_NonPositiveTtlNeverStores ==
    NonPositiveTtl =>
        /\ DataKeys = {}
        /\ \A c \in Callers :
              (call[c].pc = "done" /\ call[c].ret.tag = "return") =>
                  /\ call[c].invoked
                  /\ call[c].persist = "skipped"
                  /\ call[c].ret = Returned(Func(call[c].input))

\* Two calls with the same arguments have both returned under ttl <= 0, one
\* of them under a negative ttl or after coordinating through the lock.
C14_Witness ==
    /\ NonPositiveTtl
    /\ \A c \in Callers :
          /\ call[c].pc = "done" /\ call[c].ret.tag = "return"
          /\ call[c].invoked
          /\ call[c].input = call[1].input
    /\ call[1].id # call[2].id

\* The serializer of this configuration raises or returns no bytes.
SerializerFails == cfg.serializer \in {"raises", "nonbytes"}

\* C17: when the serializer fails, under either error policy the call
\* returns the fresh result and writes nothing, so the store never holds a
\* data key and every call that returns has invoked the computation.
C17_SerializerFailureReturnsResult ==
    SerializerFails =>
        /\ DataKeys = {}
        /\ \A c \in Callers :
              (call[c].pc = "done" /\ call[c].persist = "failed") =>
                  /\ call[c].invoked
                  /\ call[c].ret = Returned(Func(call[c].input))

\* The store is unreachable and the error policy is ignore.
Unreachable == cfg.store = "down" /\ cfg.ignoreErr

\* C18: under the ignore policy with an unreachable store, every call that
\* ends, without or with coordination, has invoked the computation and ends
\* as the computation does: it returns the computation's result or raises
\* the computation's error, never a store error.
C18_UnreachableStoreDegrades ==
    Unreachable =>
        /\ store = << >>
        /\ \A c \in Callers :
              call[c].pc = "done" =>
                  /\ call[c].invoked
                  /\ call[c].ret \in {Returned(Func(call[c].input)), Raised("func")}

\* With coordination and an unreachable store, a call has waited out its
\* deadline and returned, and the other call has ended too.
C18_Witness ==
    /\ Unreachable
    /\ cfg.maxWait > 0
    /\ call[1].pc = "done" /\ call[1].timed_out
    /\ call[1].ret = Returned(Func(call[1].input))
    /\ call[1].persist = "failed"
    /\ call[2].pc = "done" /\ call[2].id # 0

\* The controller's operation `op` has ended and its store commands did not
\* fail.
ControlEnded(op) ==
    /\ call[Controller].op = op
    /\ call[Controller].pc = "done"
    /\ ~call[Controller].failed

\* The step is an invalidate whose delete did not fail.
InvalidateStep ==
    /\ ncalls' = ncalls + 1
    /\ call'[Controller].op = "invalidate"
    /\ call'[Controller].id = ncalls'
    /\ ~call'[Controller].failed

\* The entries the wrapper call c was served: at its first check and in
\* its poll loop.
Served(c) ==
    { <<call[c].cache_key, e.by>> :
        e \in {call[c].found[i] : i \in DOMAIN call[c].found}
              \cup {call[c].refound[i] : i \in DOMAIN call[c].refound} }

EntriesOf(removed) ==
    {r \in removed : Len(r[1]) = Len(key_prefix) + 1}

\* C16: an invalidate_all whose store commands do not fail returns the
\* number of cache entries it removed, and no wrapper call that starts
\* after it has returned is served an entry it removed.
C16_InvalidateAllCountsEntries ==
    ControlEnded("invalidate_all") =>
        /\ call[Controller].ret =
             Returned(<<Cardinality(EntriesOf(call[Controller].removed))>>)
        /\ \A c \in Callers :
              (call[c].op = "call" /\ call[c].id > call[Controller].upto) =>
                  Served(c) \cap call[Controller].removed = {}

\* The store commands of the ended call or operation c that failed: the
\* get of the first cache check, the set of the entry, or the command of a
\* control operation.
FailedGet(c) == call[c].op = "call" /\ call[c].first = "failed"
FailedSet(c) == call[c].op = "call" /\ call[c].persist = "failed"
FailedCommand(c) == call[c].op # "call" /\ call[c].failed

\* What a call or operation returns when the failure is taken as a miss or
\* as a no-op.
Degraded(c) ==
    CASE call[c].op = "call" -> Returned(Func(call[c].input))
      [] call[c].op = "invalidate" -> Returned(<<0>>)
      [] call[c].op = "is_cached" -> Returned(<<FALSE>>)
      [] OTHER -> Returned(<<call[c].deleted>>)

\* C19: a call or operation that ends after a store command of its own
\* failed (get, set, delete, scan, exists) raises the store's error under
\* the propagate policy and returns as after a miss or a no-op under the
\* ignore policy.
C19_StoreFailureFollowsPolicy ==
    \A c \in Callers :
        (call[c].pc = "done" /\ (FailedGet(c) \/ FailedSet(c) \/ FailedCommand(c)))
        => call[c].ret = IF cfg.ignoreErr THEN Degraded(c) ELSE Raised("store")

\* The wrapper call c met, at its first check, a blob of the given kinds.
Met(c, kinds) == call[c].op = "call" /\ call[c].first \in kinds

\* The call ends as after a miss: it returns the computation's result, which
\* it computed or found stored by another call while it polled, or the set
\* of the entry failed and is raised under the propagate policy.
EndsAsMiss(c) ==
    call[c].pc = "done" =>
        /\ call[c].invoked \/ call[c].refound # <<>>
        /\ \/ call[c].ret = Returned(Func(call[c].input))
           \/ ~cfg.ignoreErr /\ FailedSet(c) /\ call[c].ret = Raised("store")

\* C20: a call that meets a blob the deserializer rejects raises the decode
\* error at once under the propagate policy and goes on as after a miss
\* under the ignore policy; a call that meets a blob that decodes to
\* something that is no mapping, or to a mapping without a value, goes on as
\* after a miss under both policies; and the set of a call that met such a
\* blob leaves the call's own entry under the key.
C20_BadBlobs ==
    /\ [](\A c \in Callers :
            /\ Met(c, {"undecodable"}) =>
                  IF cfg.ignoreErr THEN EndsAsMiss(c)
                  ELSE call[c].pc = "done" /\ call[c].ret = Raised("decode")
            /\ Met(c, {"nondict", "novalue"}) => EndsAsMiss(c))
    /\ [][\A c \in Callers :
            (Met(c, BadBlobs) /\ call[c].pc = "persist"
                /\ call'[c].persist = "stored")
            => /\ Has(call[c].cache_key)'
               /\ store'[call[c].cache_key].val = cache_payload(call[c])
               /\ store'[call[c].cache_key].by = call[c].id]_vars

\* Under the ignore policy a call that met an undecodable blob has computed
\* and returned, and its entry is under the key.
C20_Witness ==
    /\ cfg.ignoreErr
    /\ Met(1, {"undecodable"})
    /\ call[1].pc = "done" /\ call[1].invoked /\ call[1].persist = "stored"
    /\ Has(call[1].cache_key)
    /\ store[call[1].cache_key].val.kind = "entry"
    /\ store[call[1].cache_key].by = call[1].id

\* The wrapper call c loaded, at its first check, an entry that the
\* validation function did not accept.
MetUnaccepted(c) == call[c].op = "call" /\ call[c].first = "other"

\* C21: when the validation function raises on the stored entry, under the
\* ignore policy the call goes on, invokes the computation and returns the
\* fresh result; under the propagate policy the call raises the validation
\* error at its first check and never invokes the computation.
C21_ValidationErrorFollowsPolicy ==
    \A c \in Callers :
        (cfg.validation = "raise" /\ MetUnaccepted(c)) =>
            IF cfg.ignoreErr
            THEN /\ call[c].ret.tag # "raise"
                 /\ call[c].pc = "done" =>
                       /\ call[c].invoked
                       /\ call[c].ret = Returned(Func(call[c].input))
            ELSE /\ call[c].pc = "done"
                 /\ ~call[c].invoked
                 /\ call[c].ret = Raised("validation")

\* Under the propagate policy a call has raised the validation error on the
\* entry that an earlier call stored.
C21_Witness ==
    \E c \in Callers :
        /\ cfg.validation = "raise" /\ ~cfg.ignoreErr
        /\ MetUnaccepted(c)
        /\ call[c].ret = Raised("validation")
        /\ Has(call[c].cache_key)
        /\ store[call[c].cache_key].by # call[c].id

\* The wrapper call c loaded, at its first check, an entry that the
\* validation function accepted.
MetAccepted(c) == call[c].op = "call" /\ call[c].first = "valid"

\* C22: an entry that the validation function rejects is never returned:
\* the call that loads it invokes the computation, returns the fresh result
\* and its set leaves its own entry under the key; an entry that the
\* validation function accepts is returned without invoking the computation.
C22_ValidationDecides ==
    /\ [](\A c \in Callers :
            /\ (cfg.validation = "reject" /\ MetUnaccepted(c)) =>
                  /\ call[c].ret.tag # "raise"
                  /\ call[c].refound = <<>>
                  /\ call[c].pc = "done" =>
                        /\ call[c].invoked
                        /\ call[c].ret = Returned(Func(call[c].input))
            /\ (cfg.validation = "accept" /\ MetAccepted(c)) =>
                  /\ call[c].pc = "done"
                  /\ ~call[c].invoked
                  /\ call[c].ret = Returned(call[c].found[1].value))
    /\ [][\A c \in Callers :
            (cfg.validation = "reject" /\ MetUnaccepted(c)
                /\ call[c].pc = "persist" /\ call'[c].persist = "stored")
            => /\ Has(call[c].cache_key)'
               /\ store'[call[c].cache_key].val = cache_payload(call[c])
               /\ store'[call[c].cache_key].by = call[c].id]_vars

\* C23: when the decorated callable is a synchronous function, the
\* decorator raises TypeError and no wrapper exists: no call is ever
\* started, the computation is never invoked and the store is never written.
C23_SyncFunctionRejected ==
    cfg.func = "def" =>
        /\ store = << >>
        /\ ncalls = 0
        /\ \A c \in Callers :
              /\ call[c].pc \in {"unwrapped", "rejected"}
              /\ ~call[c].invoked
              /\ call[c].pc = "rejected" => call[c].ret = Raised("TypeError")

\* The decorator has rejected a synchronous function.
C23_Witness ==
    /\ cfg.func = "def"
    /\ \A c \in Callers :
          call[c].pc = "rejected" /\ call[c].ret = Raised("TypeError")

\* The calls and operations that have derived a key.
Keyed == {c \in Callers : call[c].cache_key # <<>>}

\* C24: the lock key of one call is never the data key of another, the lock
\* key of a call holds nothing but the marker, and every value that a read
\* path (wrapper, has_valid_value, get_cached_timestamp) loads is an entry
\* written under a data key by a call with the same key.
C24_LockNeverReadAsData ==
    /\ \A c, d \in Keyed : lock_key(call[c].cache_key) # call[d].cache_key
    /\ \A c \in Keyed :
          Has(lock_key(call[c].cache_key)) =>
              store[lock_key(call[c].cache_key)].val.kind = "marker"
    /\ \A c \in Keyed :
          Has(call[c].cache_key) => store[call[c].cache_key].val.kind = "entry"

\* The call ended without the set of an entry: the computation or an
\* earlier step raised, or the call was cancelled or its process died
\* before the set was done.
Unsuccessful(c) ==
    \/ call[c].pc \in {"crashed", "cancelled"} /\ call[c].persist # "stored"
    \/ call[c].pc = "done" /\ call[c].ret.tag = "raise"

\* C25: every blob under a data key is an entry whose value is the result
\* of the computation on the arguments of the call that wrote it, and those
\* arguments derive the key; a data key changes only by the one set of a
\* call whose computation has returned, which writes the whole entry; and a
\* call whose computation raised or has not returned, or that was cancelled
\* or died before its set, has written nothing.
C25_EntriesAreWholeResults ==
    /\ [](/\ \A k \in DataKeys :
               /\ store[k].val.kind = "entry"
               /\ store[k].val.value = Func(store[k].of)
               /\ store[k].val.parameters =
                     normalize_parameters(store[k].of.args, store[k].of.kwargs)
               /\ build_cache_key(store[k].of) = k
          /\ \A c \in Callers :
               /\ call[c].persist = "stored" => call[c].invoked
               /\ Unsuccessful(c) =>
                     /\ call[c].persist # "stored"
                     /\ \A k \in DataKeys : store[k].by # call[c].id
               /\ (call[c].pc \in InFlight /\ call[c].persist = "none") =>
                     \A k \in DataKeys : store[k].by # call[c].id)
    /\ [][\A k \in DataKeys' :
            (k \notin DataKeys \/ store'[k].by # store[k].by) =>
                \E c \in Callers :
                    /\ call[c].pc = "persist" /\ call[c].persist = "none"
                    /\ call[c].result = Func(call[c].input)
                    /\ call'[c].persist = "stored"
                    /\ call[c].cache_key = k
                    /\ store'[k].by = call[c].id
                    /\ store'[k].val.value = call[c].result]_vars

\* An entry is in the store while a call whose computation raised has ended.
C25_Witness ==
    /\ DataKeys # {}
    /\ \E c \in Callers :
          /\ call[c].pc = "done" /\ call[c].ret = Raised("func")
          /\ call[c].invoked
          /\ ~Has(call[c].cache_key)

\* The step is the controller's has_valid_value on the given arguments.
HasValidValueStep(input) ==
    /\ ncalls' = ncalls + 1
    /\ call'[Controller].op = "has_valid_value"
    /\ call'[Controller].id = ncalls'
    /\ call'[Controller].input = input

\* What the first check of a wrapper call with the given arguments does in
\* this state: its outcome when it ends the call, "miss" when the call goes
\* on to the computation.
FirstCheck(input) ==
    LET rec == [IdleCall EXCEPT !.input = input]
        went_on == [rec EXCEPT !.pc = "miss"]
        after == AfterCheck(rec, resolve_cached_value(build_cache_key(input), TRUE),
                            went_on)
    IN IF after.pc = "miss" THEN [tag |-> "miss", v |-> NoneVal] ELSE after.ret

\* C26: has_valid_value returns true exactly when the first check of a
\* wrapper call with the same arguments in the same store state returns
\* from the cache, returns false exactly when that check goes on to the
\* computation, and raises exactly when that check raises; and when it
\* returns true the key exists, which is what is_cached answers.
C26_HasValidValueMirrorsRead ==
    [][\A input \in ValidInputs :
         HasValidValueStep(input) =>
            LET ret == call'[Controller].ret
                check == FirstCheck(input)
            IN /\ ret.tag = check.tag \/ (ret.tag = "return" /\ check.tag = "miss")
               /\ ret.tag = "raise" => ret = check
               /\ ret.tag = "return" =>
                     /\ ret.v[1] <=> check.tag = "return"
                     /\ ret.v[1] => Has(build_cache_key(input))]_vars

\* has_valid_value has returned true for an entry that a call stored, and
\* false for arguments whose key exists.
C26_Witness ==
    /\ call[Controller].op = "has_valid_value"
    /\ call[Controller].ret.tag = "return"
    /\ call[Controller].ret.v = <<TRUE>>
    /\ call[Controller].found # <<>>
    /\ call[1].op = "call" /\ call[1].persist = "stored"

ConversationMutations ==
    {"create_conversation", "update_conversation", "delete_conversation"}

ReturnedFrom(rec, ops) ==
    rec.op \in ops /\ rec.pc = "done" /\ rec.ret.tag = "return"

\* C28: once create_conversation, update_conversation or delete_conversation
\* has returned for a user, a get_user_conversations call for that user that
\* starts afterwards returns the list that reflects the mutation: with
\* nothing committed since the mutation, the conversations of the user as
\* they are in the database.
C28_ListingReflectsMutation ==
    \A c, d \in Callers :
        ( /\ ReturnedFrom(call[d], ConversationMutations)
          /\ call[d].committed = db.commits
          /\ ReturnedFrom(call[c], {"get_user_conversations"})
          /\ call[c].passed = call[d].passed
          /\ call[c].id > call[d].upto )
        => call[c].ret.v = <<conversations_of(db, user_id_of(call[c]))>>

\* C29: once create_message has returned, a get_conversation_messages call
\* for that conversation and user that starts afterwards returns a list
\* that holds both the new user message and the new assistant message.
C29_MessagesHoldNewPair ==
    \A c, d \in Callers :
        ( /\ ReturnedFrom(call[d], {"create_message"})
          /\ ReturnedFrom(call[c], {"get_conversation_messages"})
          /\ call[c].passed = call[d].passed
          /\ call[c].id > call[d].upto )
        => \A m \in call[d].wrote :
              \E i \in 1..Len(call[c].ret.v[1].parts) :
                  call[c].ret.v[1].parts[i] = PyInt(m)

\* C30: a get_conversation_messages call for a conversation that is not in
\* the database when the call is made raises 404, also after the
\* conversation was deleted once its messages had been listed.
C30_MissingConversationRaises404 ==
    \A c \in Callers :
        ( /\ call[c].op = "get_conversation_messages"
          /\ call[c].pc = "done"
          /\ ~call[c].existed )
        => /\ call[c].ret.tag = "raise"
           /\ call[c].ret.v = <<"404">>

\* The first cache check of the call is over and did not return a value.
MissedFirst(c) ==
    /\ call[c].op = "call"
    /\ call[c].first \notin {"pending", "valid"}

LockSteps == {"loop_get", "set_lock", "sleep", "final_get",
              "release_raise", "release_skip", "release_final"}

\* C33: with a wait ceiling of zero or less no lock key is in the store, no
\* call is at a step of the poll loop or of a lock release or holds a lock,
\* and every call whose first cache check missed has invoked the
\* computation by its next step, whatever the other callers are doing.
C33_NoCoordinationAtZero ==
    cfg.maxWait <= 0 =>
        /\ \A k \in DOMAIN store : store[k].val.kind # "marker"
        /\ \A c \in Callers :
             /\ call[c].pc \notin LockSteps
             /\ ~call[c].have_lock
             /\ call[c].release = "none"
             /\ MissedFirst(c) => call[c].invoked

\* Two callers of the same key have both missed and are both in the
\* computation at once, at a wait ceiling of zero.
C33_Witness ==
    /\ cfg.maxWait <= 0
    /\ \A c \in Callers : MissedFirst(c) /\ call[c].pc = "func"
    /\ call[1].cache_key = call[2].cache_key

ReadOnlyOperations == {"is_cached", "has_valid_value", "get_cached_timestamp"}

\* The step is a read-only control operation of c: is_cached,
\* has_valid_value, get_cached_timestamp, or cache_key_for (which takes no
\* number).
ReadOnlyStep(c) ==
    /\ call'[c] # call[c]
    /\ call'[c].pc = "done"
    /\ call'[c].op \in ReadOnlyOperations \/ call'[c].id = 0

\* The first cache check of the wrapper call met a valid entry.
HitFirst(c) == call[c].op = "call" /\ call[c].first = "valid"

\* C34: a step of is_cached, has_valid_value, get_cached_timestamp or
\* cache_key_for leaves every key of the store as it was, its time to live
\* included; and a wrapper call whose first cache check met a valid entry
\* writes nothing, holds and releases no lock and does not invoke the
\* computation.
C34_ReadsLeaveStoreUnchanged ==
    /\ [][\A c \in Callers : ReadOnlyStep(c) => store' = store]_vars
    /\ [](\A c \in Callers :
            HitFirst(c) => /\ ~call[c].invoked
                           /\ call[c].persist = "none"
                           /\ call[c].release = "none"
                           /\ ~call[c].have_lock)

\* The step is a lock release of c whose delete went through.
ReleaseDeletes(c) ==
    /\ call[c].pc \in {"release_raise", "release_skip", "release_final"}
    /\ call'[c].release = "deleted"

\* C35: the delete of a caller's lock release removes no lock but the one
\* this caller set: a lock that another caller set after this caller's own
\* had run out stays in the store.
C35_ReleaseRemovesOwnLock ==
    [][\A c \in Callers :
          ReleaseDeletes(c) =>
              \A k \in (DOMAIN store) \ (DOMAIN store') :
                  store[k].by = call[c].id]_vars

\* c holds the lock it set and its computation is in flight.
ComputesUnderOwnLock(c) ==
    /\ call[c].op = "call" /\ call[c].pc = "func" /\ call[c].have_lock
    /\ Has(lock_key(call[c].cache_key))
    /\ store[lock_key(call[c].cache_key)].by = call[c].id

\* The step is the passing of time: no call or operation moves.
TimePasses == \A d \in Callers : call'[d].pc = call[d].pc

\* C36: while a lock holder's computation is in flight the lock key it set
\* leaves the store only by running out of its time to live: no step of
\* invalidate, of invalidate_all or of another caller removes it.
C36_LockRemovedOnlyByHolderOrExpiry ==
    [][\A c \in Callers :
          ( /\ ComputesUnderOwnLock(c)
            /\ ~(lock_key(call[c].cache_key) \in DOMAIN store') )
          => /\ TimePasses
             /\ Expires(store, lock_key(call[c].cache_key))]_vars

\* The data keys of the computations decorated with the other namespaces.
OtherKeys ==
    { build_cache_key_under(ns, input) :
        ns \in Namespaces \ {cfg.namespace}, input \in ApiInputs }

\* C37: no delete of invalidate_all removes a key that a computation with
\* another namespace under the same prefix wrote, a namespace that begins
\* with this one followed by ":" included.
C37_InvalidateAllKeepsOtherNamespaces ==
    [][call[Controller].pc \in {"delete_batch", "delete_rest"} =>
          ((DOMAIN store) \ (DOMAIN store')) \cap OtherKeys = {}]_vars

\* The first check of c met a valid entry whose value is None.
MetNone(c) ==
    /\ call[c].first = "valid"
    /\ call[c].found[1].value = NoneVal

\* C38: a valid entry whose value is None is served like any other: the
\* wrapper call that meets it returns None without invoking the
\* computation, and has_valid_value answers true for it.
C38_NoneEntryServed ==
    \A c \in Callers :
        /\ (call[c].op = "call" /\ MetNone(c)) =>
              /\ call[c].pc = "done"
              /\ ~call[c].invoked
              /\ call[c].ret.tag = "return"
              /\ call[c].ret.v = NoneVal
        /\ (call[c].op = "has_valid_value" /\ call[c].pc = "done" /\ MetNone(c)) =>
              /\ call[c].ret.tag = "return"
              /\ call[c].ret.v = <<TRUE>>

\* C39: a call that held the lock and was cancelled while the computation
\* was in flight has deleted the lock key by the time it has unwound.
C39_CancelledHolderReleases ==
    \A c \in Callers :
        (call[c].pc = "cancelled" /\ call[c].have_lock) =>
            call[c].release = "deleted"

\* C40: the message history that create_message is about to pass to the AI
\* service holds the user message that create_message has just committed,
\* the conversation being in the database (no delete has intervened).
C40_HistoryHoldsNewUserMessage ==
    \A c \in Callers :
        ( /\ call[c].op = "create_message" /\ call[c].pc = "reply"
          /\ Exists(db, conversation_id_of(call[c])) ) =>
            \A m \in call[c].wrote :
                \E i \in 1..Len(call[c].result[1].parts) :
                    call[c].result[1].parts[i] = PyInt(m)

\* The request of c has ended with the given status.
Succeeded(c, op) ==
    call[c].op = op /\ call[c].pc = "done" /\ call[c].ret.tag = "return"

\* C31: a refresh token is rotated on use: no two refresh requests that
\* presented the same token, concurrent or one after the other, have both
\* succeeded.
C31_RefreshTokenUsedOnce ==
    \A c, d \in Callers :
        (c # d /\ Succeeded(c, "refresh") /\ Succeeded(d, "refresh")) =>
            token_of(call[c]) # token_of(call[d])

\* C32: once a logout that presented a refresh token has returned success,
\* a refresh request with that token that starts afterwards fails, with 401
\* unless its own get failed, also when the delete of the logout failed.
C32_LogoutEndsSession ==
    \A c, d \in Callers :
        ( /\ Succeeded(d, "logout")
          /\ call[c].op = "refresh" /\ call[c].pc = "done"
          /\ token_of(call[c]) = token_of(call[d])
          /\ call[c].id > call[d].upto )
        => /\ call[c].ret.tag = "raise"
           /\ ~call[c].failed => call[c].ret.v = <<"401">>

====
